---- MODULE Spec2Model ----
(***************************************************************************)
(* Execution and caching core of the RNA analysis agent:                   *)
(*   Rna/optimized_core/cache_manager.py     CacheEntry, InMemoryCache,    *)
(*                                           DiskCache, CacheManager       *)
(*   Rna/optimized_core/execution_manager.py ExecutionManager              *)
(*   Rna/3_backend_mcp/rna_mcp_server.py     PythonREPL                    *)
(* Wall-clock time is an integer clock `now` advanced by Tick; two         *)
(* operations may fall on the same clock value.                            *)
(***************************************************************************)
EXTENDS Integers, Sequences, FiniteSets, TLC

\* ---------------------------------------------------------------- bounds
MaxTime == 2
MaxAccess == 2
max_size == 4

\* ------------------------------------------------------------ value model
\* Python None: the value InMemoryCache.get / DiskCache.get return on a miss
PyNone == "None"
\* values a caller may store; "big" is a value larger than the whole cache
Values == {PyNone, "a", "big"}
TTLs == {1, 2}

\* CacheEntry._calculate_size: obj.__sizeof__() (always positive)
calculate_size(v) ==
  CASE v = PyNone -> 1
    [] v = "a" -> 2
    [] OTHER -> max_size + 1

\* ------------------------------------------------------------ CacheEntry
\* CacheEntry.__init__ at clock value t
CacheEntry(k, v, ttl, t) ==
  [key |-> k, value |-> v, created_time |-> t, access_time |-> t,
   access_count |-> 1, ttl |-> ttl, size |-> calculate_size(v)]

is_expired_postponed(e, t) == t - e.access_time > e.ttl
\* CacheEntry.is_expired
is_expired(e, t) == t - e.created_time > e.ttl

\* CacheEntry.touch
touch(e, t) == [e EXCEPT !.access_time = t, !.access_count = @ + 1]

\* ------------------------------------------------- Python argument values
\* An argument value: t is the Python type, s the text of a scalar
\* (str(obj) for an object json cannot serialise), items the elements of a
\* tuple or list.
PyInt(n) == [t |-> "int", s |-> n, items |-> <<>>]
PyStr(x) == [t |-> "str", s |-> x, items |-> <<>>]
PyObj(x) == [t |-> "obj", s |-> x, items |-> <<>>]
PyTuple(xs) == [t |-> "tuple", s |-> "", items |-> xs]
PyList(xs) == [t |-> "list", s |-> "", items |-> xs]

\* keyword names in lexicographic order (the order sort_keys=True emits)
KwNames == <<"a", "b">>

RECURSIVE Join(_, _)
Join(parts, sep) ==
  IF parts = <<>> THEN ""
  ELSE IF Len(parts) = 1 THEN Head(parts)
  ELSE Head(parts) \o sep \o Join(Tail(parts), sep)

\* json.dumps(v, default=str) of one argument value: tuples and lists both
\* become JSON arrays, a non-serialisable object becomes the JSON string of
\* str(obj)
RECURSIVE json_dumps(_)
json_dumps(v) ==
  CASE v.t = "int" -> v.s
    [] v.t = "str" -> "\"" \o v.s \o "\""
    [] v.t = "obj" -> "\"" \o v.s \o "\""
    [] OTHER -> "[" \o Join([i \in 1..Len(v.items) |-> json_dumps(v.items[i])], ", ")
                \o "]"

\* sort_keys=True: the items of the kwargs dict ordered by key
RECURSIVE SortedFrom(_, _)
SortedFrom(kwargs, i) ==
  IF i > Len(KwNames) THEN <<>>
  ELSE SelectSeq(kwargs, LAMBDA kv : kv.name = KwNames[i]) \o SortedFrom(kwargs, i + 1)
dict_items(kwargs) == SortedFrom(kwargs, 1)

json_dumps_dict(kwargs) ==
  "{" \o Join([i \in 1..Len(dict_items(kwargs)) |->
                 "\"" \o dict_items(kwargs)[i].name \o "\": "
                 \o json_dumps(dict_items(kwargs)[i].val)], ", ")
  \o "}"

\* hashlib.md5(...).hexdigest(): a digest, assumed collision-free on the
\* bounded corpus
md5(key_str) == "md5(" \o key_str \o ")"

\* InMemoryCache._generate_key: key_data has the keys args, func, kwargs
generate_key(func_name, args, kwargs) ==
  md5("{\"args\": " \o json_dumps(PyTuple(args))
      \o ", \"func\": \"" \o func_name \o "\", \"kwargs\": "
      \o json_dumps_dict(kwargs) \o "}")

\* ------------------------------------------------------ memoized operations
\* A decorated function: id is the function object, name its __name__,
\* ttl and use_disk the decorator's arguments.
Funcs ==
  { [id |-> "mod_a.load", name |-> "load", ttl |-> 1, use_disk |-> TRUE],
    [id |-> "mod_b.load", name |-> "load", ttl |-> 1, use_disk |-> TRUE],
    [id |-> "calc", name |-> "calc", ttl |-> 1, use_disk |-> FALSE] }
MemoArgs == { <<PyInt("1")>> }
\* the keys in use: the digests of the memoized calls
Keys == { generate_key(f.name, a, <<>>) : f \in Funcs, a \in MemoArgs }
         \cup { generate_key("calc", <<PyInt("2")>>, <<>>) }

VARIABLES
  now,           \* time.time()
  cache,         \* InMemoryCache._cache, in dict insertion order
  current_size,  \* InMemoryCache.current_size
  payload,       \* DiskCache: contents of <key>.cache, per key
  meta,          \* DiskCache: contents of <key>.meta, per key
  window,        \* per key: when the wrapped computation last returned, and what
  last           \* the operation just completed and what it returned

\* ----------------------------------------------------------- InMemoryCache
RECURSIVE SumSizes(_)
SumSizes(c) == IF c = <<>> THEN 0 ELSE Head(c).size + SumSizes(Tail(c))

HasKey(c, k) == \E i \in 1..Len(c) : c[i].key = k
Lookup(c, k) == c[CHOOSE i \in 1..Len(c) : c[i].key = k]
\* del self._cache[key]
DelKey(c, k) == SelectSeq(c, LAMBDA e : e.key # k)
\* self._cache[key] = entry: an existing key keeps its place in the dict
PutKey(c, k, entry) ==
  IF HasKey(c, k) THEN [i \in 1..Len(c) |-> IF c[i].key = k THEN entry ELSE c[i]]
  ELSE Append(c, entry)

\* sorted(items, key=lambda x: x[1].<field>): stable, equal keys keep dict order
RECURSIVE InsertBy(_, _, _)
InsertBy(sorted, e, field) ==
  IF sorted = <<>> THEN <<e>>
  ELSE IF e[field] < Head(sorted)[field] THEN <<e>> \o sorted
  ELSE <<Head(sorted)>> \o InsertBy(Tail(sorted), e, field)
RECURSIVE SortedBy(_, _)
SortedBy(c, field) ==
  IF c = <<>> THEN <<>>
  ELSE InsertBy(SortedBy(SubSeq(c, 1, Len(c) - 1), field), c[Len(c)], field)

sorted_items_fifo(c) == SortedBy(c, "created_time")
\* _evict_entries 108-111: items sorted by access_time
sorted_items(c) == SortedBy(c, "access_time")

\* _evict_entries 113-120: the entries the loop deletes, in order
RECURSIVE EvictLoop(_, _, _)
EvictLoop(items, freed_size, required_size) ==
  IF items = <<>> \/ freed_size >= required_size THEN <<>>
  ELSE <<Head(items)>> \o
       EvictLoop(Tail(items), freed_size + Head(items).size, required_size)

RECURSIVE RemoveAll(_, _)
RemoveAll(c, victims) ==
  IF victims = <<>> THEN c ELSE RemoveAll(DelKey(c, Head(victims).key), Tail(victims))

\* InMemoryCache._evict_entries: the store, the size counter and the victims
evict_entries(c, cs, required_size) ==
  LET victims == EvictLoop(sorted_items(c), 0, required_size)
  IN [cache |-> RemoveAll(c, victims),
      current_size |-> cs - SumSizes(victims),
      evicted |-> victims]

should_evict_never(cs, new_size) == FALSE
\* InMemoryCache._should_evict
should_evict(cs, new_size) == (cs + new_size) > max_size

size_without_old_forgotten(c, cs, k) == cs
\* InMemoryCache.set 95-96: an overwritten key gives its size back
size_without_old(c, cs, k) == IF HasKey(c, k) THEN cs - Lookup(c, k).size ELSE cs

\* a set that rejects an entry larger than max_size
mem_set_rejecting(c, cs, k, v, ttl, t) ==
  LET entry == CacheEntry(k, v, ttl, t)
      ev == IF should_evict(cs, entry.size)
            THEN evict_entries(c, cs, entry.size)
            ELSE [cache |-> c, current_size |-> cs, evicted |-> <<>>]
  IN IF entry.size > max_size
     THEN [cache |-> ev.cache, current_size |-> ev.current_size,
           evicted |-> ev.evicted]
     ELSE [cache |-> PutKey(ev.cache, k, entry),
           current_size |-> size_without_old(ev.cache, ev.current_size, k) + entry.size,
           evicted |-> ev.evicted]

\* InMemoryCache.set at clock value t
mem_set(c, cs, k, v, ttl, t) ==
  LET entry == CacheEntry(k, v, ttl, t)
      ev == IF should_evict(cs, entry.size)
            THEN evict_entries(c, cs, entry.size)
            ELSE [cache |-> c, current_size |-> cs, evicted |-> <<>>]
  IN [cache |-> PutKey(ev.cache, k, entry),
      current_size |-> size_without_old(ev.cache, ev.current_size, k) + entry.size,
      evicted |-> ev.evicted]

\* InMemoryCache.get at clock value t; ret is PyNone on a miss
mem_get(c, cs, k, t) ==
  IF HasKey(c, k)
  THEN LET entry == Lookup(c, k)
       IN IF is_expired(entry, t)
          THEN [cache |-> DelKey(c, k), current_size |-> cs - entry.size,
                ret |-> PyNone]
          ELSE [cache |-> PutKey(c, k, touch(entry, t)), current_size |-> cs,
                ret |-> entry.value]
  ELSE [cache |-> c, current_size |-> cs, ret |-> PyNone]

\* a hit must leave access_count within the bound cap
MemHitAllowed(c, k, t, cap) ==
  HasKey(c, k) /\ ~is_expired(Lookup(c, k), t) => Lookup(c, k).access_count < cap

\* `except Exception`: SystemExit derives from BaseException only and is not
\* caught
is_Exception(error) == error \notin {"None", "SystemExit"}
\* the exception that leaves the try statement, "None" if none does
propagates(error) == IF error = "None" \/ is_Exception(error) THEN "None" ELSE error

\* ---------------------------------------------------------------- DiskCache
\* pickle.dump / pickle.load of a value; a file that does not exist is <<>>
NoFile == <<>>
pickle_dumps(v) == <<"pickle", v>>
pickle_loads(b) == b[2]
\* the metadata file: kind "none" (no file) or "json" (the dict of 206-212)
NoMeta == [kind |-> "none", created_time |-> 0, access_time |-> 0,
           access_count |-> 0, expires_at |-> 0, ttl |-> 0]
new_meta(ttl, t) == [kind |-> "json", created_time |-> t, access_time |-> t,
                     access_count |-> 1, expires_at |-> t + ttl, ttl |-> ttl]

\* DiskCache._remove_cache_files
remove_cache_files(p, m, k) ==
  [payload |-> [p EXCEPT ![k] = NoFile], meta |-> [m EXCEPT ![k] = NoMeta]]

\* DiskCache.get 173: time.time() > meta['expires_at']
meta_expired(mt, t) == t > mt.expires_at

\* DiskCache.get that returns the value it loaded although the write-back of
\* the metadata failed
disk_get_serving_failed(p, m, k, t, io) ==
  IF p[k] = NoFile \/ m[k].kind = "none"
  THEN [payload |-> p, meta |-> m, ret |-> PyNone]
  ELSE IF meta_expired(m[k], t)
  THEN remove_cache_files(p, m, k) @@ [ret |-> PyNone]
  ELSE IF io = "fail"
  THEN remove_cache_files(p, m, k) @@ [ret |-> pickle_loads(p[k])]
  ELSE [payload |-> p,
        meta |-> [m EXCEPT ![k].access_time = t, ![k].access_count = @ + 1],
        ret |-> pickle_loads(p[k])]

\* DiskCache.get at clock value t; io = "fail" is an exception raised inside
\* the try block (167-187): the metadata cannot be read or parsed, the payload
\* cannot be read, or the metadata cannot be written back
disk_get(p, m, k, t, io) ==
  IF p[k] = NoFile \/ m[k].kind = "none"
  THEN [payload |-> p, meta |-> m, ret |-> PyNone]
  ELSE IF meta_expired(m[k], t) \/ io = "fail"
  THEN remove_cache_files(p, m, k) @@ [ret |-> PyNone]
  ELSE [payload |-> p,
        meta |-> [m EXCEPT ![k].access_time = t, ![k].access_count = @ + 1],
        ret |-> pickle_loads(p[k])]

\* DiskCache.set at clock value t; io = "fail" is an exception raised by
\* either write (216-218)
disk_set(p, m, k, v, ttl, t, io) ==
  IF io = "fail"
  THEN remove_cache_files(p, m, k)
  ELSE [payload |-> [p EXCEPT ![k] = pickle_dumps(v)],
        meta |-> [m EXCEPT ![k] = new_meta(ttl, t)]]

DiskHitAllowed(p, m, k, t, cap) ==
  p[k] # NoFile /\ m[k].kind = "json" /\ ~meta_expired(m[k], t)
    => m[k].access_count < cap

\* DiskCache.cleanup_expired at clock value t
cleanup_expired(p, m, t) ==
  [payload |-> [k \in Keys |-> IF m[k].kind = "json" /\ meta_expired(m[k], t)
                               THEN NoFile ELSE p[k]],
   meta |-> [k \in Keys |-> IF m[k].kind = "json" /\ meta_expired(m[k], t)
                            THEN NoMeta ELSE m[k]]]

\* ------------------------------------------------------------------ state
cache_vars == <<now, cache, current_size, payload, meta, window, last>>

NoKey == ""
NoLast == [op |-> "init", key |-> NoKey,
           ret |-> PyNone, evicted |-> <<>>, io |-> "ok", func |-> "",
           computed |-> FALSE, disk_read |-> FALSE, promoted |-> FALSE,
           expired |-> FALSE, raised |-> "None"]
Closed == [at |-> -1, result |-> PyNone, ttl |-> 0, by |-> ""]
\* the windows of the keys in ks end
CloseWindows(w, ks) == [k \in Keys |-> IF k \in ks THEN Closed ELSE w[k]]
KeysOf(entries) == { entries[i].key : i \in 1..Len(entries) }

\* InMemoryCache.__init__ / DiskCache.__init__ on an empty cache directory
CacheInit ==
  /\ now = 0
  /\ cache = <<>>
  /\ current_size = 0
  /\ payload = [k \in Keys |-> NoFile]
  /\ meta = [k \in Keys |-> NoMeta]
  /\ window = [k \in Keys |-> Closed]
  /\ last = NoLast

\* time passes between two operations
Tick ==
  /\ now < MaxTime
  /\ now' = now + 1
  /\ UNCHANGED <<cache, current_size, payload, meta, window, last>>

\* InMemoryCache.set(key, value, ttl)
InMemoryCache_set(k, v, ttl) ==
  \E r \in {mem_set(cache, current_size, k, v, ttl, now)} :
     /\ cache' = r.cache
     /\ current_size' = r.current_size
     /\ window' = CloseWindows(window, KeysOf(r.evicted) \cup {k})
     /\ last' = [NoLast EXCEPT !.op = "mem_set", !.key = k,
                               !.evicted = r.evicted]
     /\ UNCHANGED <<now, payload, meta>>

\* InMemoryCache.get(key), while the entry's access_count is below cap
InMemoryCache_get(k, cap) ==
  \E r \in {mem_get(cache, current_size, k, now)} :
     /\ MemHitAllowed(cache, k, now, cap)
     /\ cache' = r.cache
     /\ current_size' = r.current_size
     /\ last' = [NoLast EXCEPT !.op = "mem_get", !.key = k, !.ret = r.ret,
                               !.expired = Len(r.cache) < Len(cache)]
     /\ UNCHANGED <<now, payload, meta, window>>

\* InMemoryCache.clear()
InMemoryCache_clear ==
  /\ cache' = <<>>
  /\ current_size' = 0
  /\ window' = [k \in Keys |-> Closed]
  /\ last' = [NoLast EXCEPT !.op = "mem_clear"]
  /\ UNCHANGED <<now, payload, meta>>

\* DiskCache.set(key, value, ttl)
DiskCache_set(k, v, ttl, io) ==
  \E r \in {disk_set(payload, meta, k, v, ttl, now, io)} :
     /\ payload' = r.payload
     /\ meta' = r.meta
     /\ last' = [NoLast EXCEPT !.op = "disk_set", !.key = k, !.io = io]
     /\ UNCHANGED <<now, cache, current_size, window>>

\* DiskCache.get(key), while the entry's access_count is below cap
DiskCache_get(k, io, cap) ==
  \E r \in {disk_get(payload, meta, k, now, io)} :
     /\ DiskHitAllowed(payload, meta, k, now, cap)
     /\ payload' = r.payload
     /\ meta' = r.meta
     /\ last' = [NoLast EXCEPT !.op = "disk_get", !.key = k, !.ret = r.ret,
                               !.io = io,
                               !.expired = /\ meta[k].kind = "json"
                                           /\ r.meta[k].kind = "none"
                                           /\ io = "ok"]
     /\ UNCHANGED <<now, cache, current_size, window>>

\* DiskCache.clear()
DiskCache_clear ==
  /\ payload' = [k \in Keys |-> NoFile]
  /\ meta' = [k \in Keys |-> NoMeta]
  /\ last' = [NoLast EXCEPT !.op = "disk_clear"]
  /\ UNCHANGED <<now, cache, current_size, window>>

\* CacheManager.cleanup(); pressure is the outcome of the test
\* psutil.virtual_memory().percent > memory_threshold * 100
CacheManager_cleanup(pressure) ==
  \E d \in {cleanup_expired(payload, meta, now)} :
  \E ev \in {IF pressure
              THEN evict_entries(cache, current_size, current_size \div 4)
              ELSE [cache |-> cache, current_size |-> current_size, evicted |-> <<>>]} :
     /\ payload' = d.payload
     /\ meta' = d.meta
     /\ cache' = ev.cache
     /\ current_size' = ev.current_size
     /\ window' = CloseWindows(window, KeysOf(ev.evicted))
     /\ last' = [NoLast EXCEPT !.op = "cleanup", !.evicted = ev.evicted]
     /\ UNCHANGED now

\* ------------------------------------------------------------ CacheManager
\* config.cache.enable_data_cache (ENABLE_DATA_CACHE defaults to "true")
enable_data_cache == TRUE

\* wrapper 280: the key is built from func.__name__; the keys of the
\* memoized calls, computed once
KeyOfCall == [f \in Funcs, a \in MemoArgs |-> generate_key(f.name, a, <<>>)]

\* wrapper 284 / 290: `result is not None` is what counts as a hit
is_hit(result) == result # PyNone

\* the exception a failed disk access raises inside DiskCache.get (167-187)
\* or DiskCache.set (199-214)
disk_error(io) == IF io = "fail" THEN "OSError" ELSE "None"
\* DiskCache.get 189 / DiskCache.set 216: `except Exception`; what the
\* wrapper's caller sees of the outcome io of the disk accesses of one call
wrapper_raised(io) == propagates(disk_error(io))

\* a full miss that writes the disk tier whatever use_disk is
wrapper_miss_always_disk(g, p, m, f, key, result, io_set, disk_read, get_failed, t) ==
  disk_set(p, m, key, result, f.ttl, t, io_set)
  @@ mem_set(g.cache, g.current_size, key, result, f.ttl, t)
  @@ [ret |-> result, computed |-> TRUE, disk_read |-> disk_read,
      promoted |-> FALSE,
      io |-> IF get_failed \/ io_set = "fail" THEN "fail" ELSE "ok"]

\* wrapper 295-303: full miss; func(*args) returned result
wrapper_miss(g, p, m, f, key, result, io_set, disk_read, get_failed, t) ==
  LET use_disk == f.use_disk /\ enable_data_cache
  IN (IF use_disk THEN disk_set(p, m, key, result, f.ttl, t, io_set)
      ELSE [payload |-> p, meta |-> m])
     @@ mem_set(g.cache, g.current_size, key, result, f.ttl, t)
     @@ [ret |-> result, computed |-> TRUE, disk_read |-> disk_read,
         promoted |-> FALSE,
         io |-> IF get_failed \/ (use_disk /\ io_set = "fail") THEN "fail" ELSE "ok"]

\* a promotion that gives the memory entry the lifetime the disk entry has
\* left
wrapper_disk_remaining_ttl(g, d, f, key, result, io_set, get_failed, t) ==
  IF is_hit(d.ret)
  THEN [payload |-> d.payload, meta |-> d.meta]
       @@ mem_set(g.cache, g.current_size, key, d.ret,
                  d.meta[key].expires_at - t, t)
       @@ [ret |-> d.ret, computed |-> FALSE, disk_read |-> TRUE,
           promoted |-> TRUE, io |-> IF get_failed THEN "fail" ELSE "ok"]
  ELSE wrapper_miss(g, d.payload, d.meta, f, key, result, io_set, TRUE, get_failed, t)

\* wrapper 289-293: the disk tier answered d; a hit is put back into memory
wrapper_disk(g, d, f, key, result, io_set, get_failed, t) ==
  IF is_hit(d.ret)
  THEN [payload |-> d.payload, meta |-> d.meta]
       @@ mem_set(g.cache, g.current_size, key, d.ret, f.ttl, t)
       @@ [ret |-> d.ret, computed |-> FALSE, disk_read |-> TRUE,
           promoted |-> TRUE, io |-> IF get_failed THEN "fail" ELSE "ok"]
  ELSE wrapper_miss(g, d.payload, d.meta, f, key, result, io_set, TRUE, get_failed, t)

\* wrapper 283-288: the memory tier answered g
wrapper_memory(g, p, m, f, key, result, io_get, io_set, t) ==
  IF is_hit(g.ret)
  THEN [cache |-> g.cache, current_size |-> g.current_size, evicted |-> <<>>,
        payload |-> p, meta |-> m, ret |-> g.ret, computed |-> FALSE,
        disk_read |-> FALSE, promoted |-> FALSE, io |-> "ok"]
  ELSE IF f.use_disk /\ enable_data_cache
  THEN wrapper_disk(g, disk_get(p, m, key, t, io_get), f, key, result, io_set,
                    /\ io_get = "fail" /\ p[key] # NoFile /\ m[key].kind = "json"
                    /\ ~meta_expired(m[key], t), t)
  ELSE wrapper_miss(g, p, m, f, key, result, io_set, FALSE, FALSE, t)

\* CacheManager.cache_result.wrapper for the decorated function f called
\* with args; result is what func(*args) returns if it is invoked, io_get and
\* io_set the I/O outcomes of the disk read and the disk write
wrapper(f, args, result, io_get, io_set) ==
  \E key \in {KeyOfCall[f, args]} :
  \E r \in {wrapper_memory(mem_get(cache, current_size, key, now), payload, meta,
                           f, key, result, io_get, io_set, now)} :
     /\ MemHitAllowed(cache, key, now, MaxAccess)
     /\ r.disk_read => DiskHitAllowed(payload, meta, key, now, MaxAccess)
     /\ cache' = r.cache
     /\ current_size' = r.current_size
     /\ payload' = r.payload
     /\ meta' = r.meta
     /\ window' = IF r.computed
                  THEN [CloseWindows(window, KeysOf(r.evicted)) EXCEPT
                          ![key] = [at |-> now, result |-> result, ttl |-> f.ttl,
                                    by |-> f.id]]
                  ELSE CloseWindows(window, KeysOf(r.evicted))
     /\ last' = [NoLast EXCEPT !.op = "memo", !.key = key, !.func = f.id,
                   !.ret = r.ret, !.evicted = r.evicted, !.io = r.io,
                   !.computed = r.computed, !.disk_read = r.disk_read,
                   !.promoted = r.promoted, !.raised = wrapper_raised(r.io)]
     /\ UNCHANGED now

\* CacheManager.clear_all()
clear_all ==
  /\ cache' = <<>>
  /\ current_size' = 0
  /\ payload' = [k \in Keys |-> NoFile]
  /\ meta' = [k \in Keys |-> NoMeta]
  /\ window' = [k \in Keys |-> Closed]
  /\ last' = [NoLast EXCEPT !.op = "clear_all"]
  /\ UNCHANGED now

\* a fresh process: CacheManager.__init__ builds a new InMemoryCache over
\* the cache directory the previous process left behind
CacheManager_init ==
  /\ cache' = <<>>
  /\ current_size' = 0
  /\ window' = [k \in Keys |-> Closed]
  /\ last' = [NoLast EXCEPT !.op = "restart"]
  /\ UNCHANGED <<now, payload, meta>>

\* ------------------------------------------------------- execution session
MaxExec == 3
Names == {"np", "x"}
Unbound == "unbound"
UserValues == {"1"}
\* submitted code is a sequence of statements
Stmts ==
  [op : {"assign"}, name : Names, val : UserValues]
  \cup [op : {"del", "print"}, name : Names, val : {""}]
  \cup [op : {"raise", "exit"}, name : {""}, val : {""}]
Codes == { <<st>> : st \in Stmts } \cup { <<st1, st2>> : st1 \in Stmts, st2 \in Stmts }
\* a markdown fence and a language tag around code sent to the REPL
Fence == [op |-> "fence", name |-> "", val |-> ""]
Lang == [op |-> "python", name |-> "", val |-> ""]
Commands == Codes \cup { <<Fence, Lang, st, Fence>> : st \in Stmts }

VARIABLES
  execution_manager,  \* _execution_manager: "None" or the singleton "created"
  globals_dict,       \* ExecutionManager.globals_dict
  total_executions,   \* ExecutionManager.stats["total_executions"]
  repl_globals,       \* PythonREPL.globals
  exec_last           \* the submission just run and its result

exec_vars == <<execution_manager, globals_dict, total_executions,
               repl_globals, exec_last>>

EmptyNamespace == [n \in Names |-> Unbound]

exec_resetting(ns, code) ==
  [ns |-> EmptyNamespace, stdout |-> <<>>, error |-> "Exception"]
\* exec(code, ns): statements run in order; the first one that raises ends
\* the run and everything bound before it stays bound. "raise" raises an
\* Exception, "exit" is sys.exit(), which raises SystemExit
RECURSIVE exec(_, _)
exec(ns, code) ==
  IF code = <<>> THEN [ns |-> ns, stdout |-> <<>>, error |-> "None"]
  ELSE LET st == Head(code)
       IN CASE st.op = "assign" -> exec([ns EXCEPT ![st.name] = st.val], Tail(code))
            [] st.op = "del" ->
                 IF ns[st.name] = Unbound
                 THEN [ns |-> ns, stdout |-> <<>>, error |-> "NameError"]
                 ELSE exec([ns EXCEPT ![st.name] = Unbound], Tail(code))
            [] st.op = "print" ->
                 IF ns[st.name] = Unbound
                 THEN [ns |-> ns, stdout |-> <<>>, error |-> "NameError"]
                 ELSE LET r == exec(ns, Tail(code))
                      IN [r EXCEPT !.stdout = <<ns[st.name]>> \o @]
            [] st.op = "raise" -> [ns |-> ns, stdout |-> <<>>, error |-> "Exception"]
            [] st.op = "exit" -> [ns |-> ns, stdout |-> <<>>, error |-> "SystemExit"]
            [] OTHER -> [ns |-> ns, stdout |-> <<>>, error |-> "SyntaxError"]

\* the names a submission assigns or deletes
Rebinds(code) ==
  { code[i].name : i \in { j \in 1..Len(code) : code[j].op \in {"assign", "del"} } }

\* PythonREPL.sanitize_input: leading fences and a leading language tag, and
\* trailing fences, are stripped
RECURSIVE StripLeading(_)
StripLeading(c) ==
  IF c # <<>> /\ Head(c).op = "fence" THEN StripLeading(Tail(c)) ELSE c
RECURSIVE StripTrailing(_)
StripTrailing(c) ==
  IF c # <<>> /\ c[Len(c)].op = "fence" THEN StripTrailing(SubSeq(c, 1, Len(c) - 1))
  ELSE c
sanitize_input(query) ==
  LET a == StripLeading(query)
      b == IF a # <<>> /\ Head(a).op = "python" THEN Tail(a) ELSE a
  IN StripTrailing(b)

NoExec == [target |-> "none", code |-> <<>>, success |-> TRUE,
           stdout |-> <<>>, error |-> "None", raised |-> "None"]

\* module load: _execution_manager = None, global_namespace = {}
ExecInit ==
  /\ execution_manager = "None"
  /\ globals_dict = EmptyNamespace
  /\ total_executions = 0
  /\ repl_globals = EmptyNamespace
  /\ exec_last = NoExec

\* ExecutionManager._init_environment: the init code binds the baseline names
init_environment(ns) == [ns EXCEPT !["np"] = "numpy"]

\* get_execution_manager(): the singleton is built on first use only
get_execution_manager ==
  /\ IF execution_manager = "None"
     THEN /\ execution_manager' = "created"
          /\ globals_dict' = init_environment(EmptyNamespace)
          /\ total_executions' = 0
     ELSE UNCHANGED <<execution_manager, globals_dict, total_executions>>
  /\ exec_last' = [NoExec EXCEPT !.target = "get"]
  /\ UNCHANGED repl_globals

\* ExecutionManager.execute_code(code)
execute_code(code) ==
  LET r == exec(globals_dict, code)
  IN /\ execution_manager = "created"
     /\ total_executions < MaxExec
     /\ globals_dict' = r.ns
     /\ total_executions' = IF propagates(r.error) = "None"
                            THEN total_executions + 1 ELSE total_executions
     /\ exec_last' = [target |-> "execute_code", code |-> code,
                      success |-> (r.error = "None"), stdout |-> r.stdout,
                      error |-> r.error, raised |-> propagates(r.error)]
     /\ UNCHANGED <<execution_manager, repl_globals>>

\* ExecutionManager.get_stats()
get_stats ==
  /\ execution_manager = "created"
  /\ exec_last' = [NoExec EXCEPT !.target = "get_stats"]
  /\ UNCHANGED <<execution_manager, globals_dict, total_executions, repl_globals>>

\* PythonREPL.run(command)
PythonREPL_run(command) ==
  LET cleaned_command == sanitize_input(command)
      r == exec(repl_globals, cleaned_command)
  IN /\ repl_globals' = r.ns
     /\ exec_last' = [target |-> "run", code |-> command,
                      success |-> (r.error = "None"), stdout |-> r.stdout,
                      error |-> r.error, raised |-> propagates(r.error)]
     /\ UNCHANGED <<execution_manager, globals_dict, total_executions>>

\* ------------------------------------- execution session, thread by thread
MaxCalls == 2
Threads == {"t1", "t2"}
\* an ExecutionManager instance is named after the thread that constructs it
NoManager == "None"
\* code submitted by concurrent callers
SessionCodes ==
  { <<[op |-> "assign", name |-> "x", val |-> "1"]>>,
    <<[op |-> "assign", name |-> "x", val |-> "1"],
      [op |-> "raise", name |-> "", val |-> ""]>>,
    <<[op |-> "assign", name |-> "x", val |-> "1"],
      [op |-> "exit", name |-> "", val |-> ""]>>,
    <<[op |-> "print", name |-> "x", val |-> ""]>> }

VARIABLES
  manager_global,  \* the module global _execution_manager
  managers,        \* the ExecutionManager instances, by constructing thread
  threads          \* per calling thread: where it is and what it holds

session_vars == <<manager_global, managers, threads>>

\* ExecutionManager.__init__ 25-32: the fields of a new instance
NewManager == [initialized |-> FALSE, lock |-> "free",
               globals_dict |-> EmptyNamespace, total_executions |-> 0,
               init_runs |-> 0]
NoResult == [outcome |-> "none", success |-> TRUE, error |-> "None"]
Idle == [pc |-> "idle", manager |-> NoManager, code |-> <<>>, done |-> 0,
         error |-> "None", result |-> NoResult, calls |-> 0]

\* module load: _execution_manager = None, no instance constructed yet
SessionInit ==
  /\ manager_global = NoManager
  /\ managers = [t \in Threads |-> NewManager]
  /\ threads = [t \in Threads |-> Idle]

lock_acquirable_always(lock) == TRUE
\* threading.Lock: `with self.lock` enters only while the lock is free
lock_acquirable(lock) == lock = "free"

\* get_execution_manager 151: the test `_execution_manager is None`
get_execution_manager_test(t) ==
  /\ threads[t].pc = "idle"
  /\ threads' = [threads EXCEPT ![t].pc =
                   IF manager_global = NoManager THEN "new" ELSE "return"]
  /\ UNCHANGED <<manager_global, managers>>

\* get_execution_manager 152, ExecutionManager(): __init__ 25-32
ExecutionManager_init(t) ==
  /\ threads[t].pc = "new"
  /\ managers' = [managers EXCEPT ![t] = NewManager]
  /\ threads' = [threads EXCEPT ![t].pc = "init"]
  /\ UNCHANGED manager_global

\* ExecutionManager.__init__ 33: _init_environment under the instance's lock
ExecutionManager_init_environment(t) ==
  /\ threads[t].pc = "init"
  /\ IF managers[t].initialized
     THEN UNCHANGED managers
     ELSE /\ lock_acquirable(managers[t].lock)
          /\ managers' = [managers EXCEPT
                            ![t].globals_dict = init_environment(@),
                            ![t].initialized = TRUE,
                            ![t].init_runs = @ + 1]
  /\ threads' = [threads EXCEPT ![t].pc = "assign"]
  /\ UNCHANGED manager_global

\* get_execution_manager 152: the assignment to _execution_manager
get_execution_manager_assign(t) ==
  /\ threads[t].pc = "assign"
  /\ manager_global' = t
  /\ threads' = [threads EXCEPT ![t].pc = "return"]
  /\ UNCHANGED managers

\* get_execution_manager 153: return _execution_manager
get_execution_manager_return(t) ==
  /\ threads[t].pc = "return"
  /\ threads' = [threads EXCEPT ![t].pc = "ready", ![t].manager = manager_global]
  /\ UNCHANGED <<manager_global, managers>>

\* execute_code(code) is called and reaches `with self.lock`
execute_code_call(t, code) ==
  /\ threads[t].pc = "ready"
  /\ threads[t].calls < MaxCalls
  /\ threads' = [threads EXCEPT ![t].pc = "waiting", ![t].code = code,
                                ![t].done = 0, ![t].error = "None",
                                ![t].result = NoResult, ![t].calls = @ + 1]
  /\ UNCHANGED <<manager_global, managers>>

\* execute_code 75: the lock is taken
execute_code_acquire(t) ==
  /\ threads[t].pc = "waiting"
  /\ lock_acquirable(managers[threads[t].manager].lock)
  /\ managers' = [managers EXCEPT ![threads[t].manager].lock = t]
  /\ threads' = [threads EXCEPT ![t].pc = "running"]
  /\ UNCHANGED manager_global

\* _execute_with_capture 89: exec runs the next statement of the code
exec_statement(t) ==
  /\ threads[t].pc = "running"
  /\ threads[t].code # <<>>
  /\ threads[t].error = "None"
  /\ \E r \in {exec(managers[threads[t].manager].globals_dict,
                    <<Head(threads[t].code)>>)} :
       /\ managers' = [managers EXCEPT ![threads[t].manager].globals_dict = r.ns]
       /\ threads' = [threads EXCEPT ![t].code = Tail(@), ![t].done = @ + 1,
                                     ![t].error = r.error]
  /\ UNCHANGED manager_global

\* _execute_with_capture 91-107 and the end of `with self.lock`: an
\* Exception becomes the result; anything else leaves execute_code as an
\* exception, past the statistics
execute_code_return(t) ==
  /\ threads[t].pc = "running"
  /\ threads[t].code = <<>> \/ threads[t].error # "None"
  /\ managers' = [managers EXCEPT
                    ![threads[t].manager].lock = "free",
                    ![threads[t].manager].total_executions =
                       IF propagates(threads[t].error) = "None" THEN @ + 1 ELSE @]
  /\ threads' = [threads EXCEPT
                   ![t].pc = "ready", ![t].code = <<>>,
                   ![t].result =
                      IF propagates(threads[t].error) = "None"
                      THEN [outcome |-> "returned",
                            success |-> (threads[t].error = "None"),
                            error |-> threads[t].error]
                      ELSE [outcome |-> "raised", success |-> FALSE,
                            error |-> threads[t].error]]
  /\ UNCHANGED manager_global

\* ------------------------------------------------ tool-call confirmation
MaxChats == 2
MaxSessions == 1
\* the sentinel text "[等待用户确认执行]" and the text of a cancellation
PLACEHOLDER == "[pending]"
CANCELLED == "cancelled"
ToolNames == {"python_repl_tool", "load_pbmc3k_data"}
\* handle_chat_input 1279 / display_message 976
requires_confirmation(name) == name = "python_repl_tool"
\* args["query"] of a python_repl_tool call
ToolQuery == <<[op |-> "assign", name |-> "x", val |-> "1"]>>
\* uuid4(): an identifier equal to no tool call id; the default tool_call_id
Uuid == 0
NoId == -1
NoConversation == "None"

\* a tool call the model asks for; ids are 1, 2, ... in order of request
ToolCall(name, id) ==
  [name |-> name, id |-> id,
   args |-> IF requires_confirmation(name) THEN "query" ELSE "{}"]

\* messages; `call` records which tool call a ToolMessage was produced for
HumanMessage(content) ==
  [type |-> "Human", content |-> content, tool_calls |-> <<>>,
   tool_call_id |-> NoId, name |-> "", call |-> 0]
AIMessage(content, tool_calls) ==
  [type |-> "AI", content |-> content, tool_calls |-> tool_calls,
   tool_call_id |-> NoId, name |-> "", call |-> 0]
ToolMessage(content, tool_call_id, name, call) ==
  [type |-> "Tool", content |-> content, tool_calls |-> <<>>,
   tool_call_id |-> tool_call_id, name |-> name, call |-> call]

VARIABLES
  messages,            \* st.session_state.messages
  executed_keys,       \* the executed_<unique_key> flags of st.session_state
  conversation_id,     \* st.session_state.conversation_id
  conversation_store,  \* agent_server.conversation_store, the one conversation
  calls,               \* the tool calls requested so far, by id
  tool_runs,           \* per call id: how often the MCP server ran the tool
  confirmed,           \* the call ids a user pressed Execute for, so far
  status,              \* per call id: the state it was last brought to
  sessions,            \* browser sessions opened after the first
  ui_last              \* the event just handled

confirm_vars == <<messages, executed_keys, conversation_id, conversation_store,
                  calls, tool_runs, confirmed, status, sessions, ui_last>>

CallIds == 1..MaxChats
NoEvent == [op |-> "none", call |-> 0, outcome |-> "none"]

\* first run of the script in a browser session 1099-1111; module load of the
\* agent server 42
ConfirmInit ==
  /\ messages = <<>>
  /\ executed_keys = {}
  /\ conversation_id = NoConversation
  /\ conversation_store = <<>>
  /\ calls = <<>>
  /\ tool_runs = [n \in CallIds |-> 0]
  /\ confirmed = {}
  /\ status = [n \in CallIds |-> "none"]
  /\ sessions = 0
  /\ ui_last = NoEvent

\* the content an MCP tool returns: the same tool gives the same text
tool_content(name) ==
  IF name = "python_repl_tool" THEN "no output" ELSE "data loaded"

\* mcp python_repl_tool 184: python_repl.run(code_str) on the shared
\* namespace; load_pbmc3k_data 289-303 runs its imports there
tool_namespace(ns, name) ==
  IF name = "python_repl_tool" THEN exec(ns, sanitize_input(ToolQuery)).ns
  ELSE [ns EXCEPT !["np"] = "numpy"]

\* handle_chat_input 1283-1296: the test for a message already in the list
is_duplicate(current_messages, msg_obj) ==
  \E i \in 1..Len(current_messages) :
    /\ current_messages[i].type = msg_obj.type
    /\ current_messages[i].content = msg_obj.content
    /\ msg_obj.type = "AI" => current_messages[i].tool_calls = msg_obj.tool_calls

\* handle_chat_input 1260-1308: the returned messages are appended unless they
\* are user messages or duplicates
RECURSIVE merge_messages(_, _)
merge_messages(current_messages, returned_messages) ==
  IF returned_messages = <<>> THEN current_messages
  ELSE IF Head(returned_messages).type = "Human"
          \/ is_duplicate(current_messages, Head(returned_messages))
  THEN merge_messages(current_messages, Tail(returned_messages))
  ELSE merge_messages(Append(current_messages, Head(returned_messages)),
                      Tail(returned_messages))

\* render_tool_call_pending 1331-1335: tool_index is 0, one call per message
executed_key(message_index, tool_call) ==
  <<message_index, 0, tool_call.name, tool_call.id, tool_call.args>>

\* render_tool_call_pending 1343-1358: a ToolMessage of this call that is not
\* the placeholder
has_result(msgs, tool_call) ==
  \E k \in 1..Len(msgs) :
    /\ msgs[k].type = "Tool"
    /\ msgs[k].tool_call_id = tool_call.id
    /\ msgs[k].name = tool_call.name
    /\ msgs[k].content # PLACEHOLDER

\* the indexes of the messages that carry a tool call
ToolCallIndexes(msgs) ==
  { i \in 1..Len(msgs) : msgs[i].type = "AI" /\ msgs[i].tool_calls # <<>> }

\* render_tool_call_pending 1338-1358
is_executed(msgs, keys, i) ==
  \/ executed_key(i, msgs[i].tool_calls[1]) \in keys
  \/ has_result(msgs, msgs[i].tool_calls[1])

\* a run of the script renders every message: 1357 sets the flag of every
\* call whose result is found in the list
render_all(msgs, keys) ==
  keys \cup { executed_key(i, msgs[i].tool_calls[1]) :
                i \in { j \in ToolCallIndexes(msgs) :
                          has_result(msgs, msgs[j].tool_calls[1]) } }

\* process_user_message_with_history(message, history): a call that requires
\* confirmation is answered with the placeholder, any other tool is run at
\* once
process_user_message_with_history(history, tool_call) ==
  history \o
  << HumanMessage("prompt"),
     AIMessage("", <<tool_call>>),
     IF requires_confirmation(tool_call.name)
     THEN ToolMessage(PLACEHOLDER, tool_call.id, tool_call.name, tool_call.id)
     ELSE ToolMessage(tool_content(tool_call.name), tool_call.id, tool_call.name,
                      tool_call.id) >>

\* handle_chat_input with a prompt that goes to the agent: the /chat endpoint
\* (agent_server.chat 168-219) answers with the whole conversation, which is
\* merged into the session's messages
handle_chat_input(name) ==
  \E tool_call \in {ToolCall(name, Len(calls) + 1)} :
  \E returned \in {process_user_message_with_history(
                     IF conversation_id = NoConversation THEN <<>>
                     ELSE conversation_store, tool_call)} :
  \E merged \in {merge_messages(Append(messages, HumanMessage("prompt")),
                                returned)} :
     /\ Len(calls) < MaxChats
     /\ conversation_id = NoConversation => conversation_store = <<>>
     /\ calls' = Append(calls, tool_call)
     /\ conversation_store' = returned
     /\ conversation_id' = "conv"
     /\ messages' = merged
     /\ executed_keys' = render_all(merged, executed_keys)
     /\ IF requires_confirmation(name)
        THEN /\ status' = [status EXCEPT ![tool_call.id] = "awaiting"]
             /\ UNCHANGED tool_runs
        ELSE /\ status' = [status EXCEPT ![tool_call.id] = "executed"]
             /\ tool_runs' = [tool_runs EXCEPT ![tool_call.id] = @ + 1]
     /\ repl_globals' = IF requires_confirmation(name) THEN repl_globals
                        ELSE tool_namespace(repl_globals, name)
     /\ ui_last' = [op |-> "chat", call |-> tool_call.id, outcome |-> "done"]
     /\ UNCHANGED <<confirmed, sessions>>

\* render_tool_call_pending, the Execute button of the call in message i is
\* pressed; io is the outcome of the connection to the MCP server
press_run(i, io) ==
  \E tool_call \in {messages[i].tool_calls[1]} :
    IF is_executed(messages, executed_keys, i)
    THEN /\ executed_keys' = render_all(messages, executed_keys)
         /\ ui_last' = [op |-> "run", call |-> tool_call.id, outcome |-> "ignored"]
         /\ UNCHANGED <<messages, conversation_id, conversation_store, calls,
                        tool_runs, confirmed, status, sessions, repl_globals>>
    ELSE \E msgs \in {Append(messages,
                        ToolMessage(IF io = "ok" THEN tool_content(tool_call.name)
                                    ELSE "",
                                    Uuid, tool_call.name, tool_call.id))} :
         /\ messages' = msgs
         /\ executed_keys' =
              render_all(msgs, executed_keys \cup {executed_key(i, tool_call)})
         /\ confirmed' = confirmed \cup {tool_call.id}
         /\ IF io = "ok"
            THEN /\ tool_runs' = [tool_runs EXCEPT ![tool_call.id] = @ + 1]
                 /\ repl_globals' = tool_namespace(repl_globals, tool_call.name)
            ELSE UNCHANGED <<tool_runs, repl_globals>>
         /\ status' = [status EXCEPT ![tool_call.id] = "executed"]
         /\ ui_last' = [op |-> "run", call |-> tool_call.id, outcome |-> "done"]
         /\ UNCHANGED <<conversation_id, conversation_store, calls, sessions>>

\* render_tool_call_pending, the Cancel button of the call in message i is
\* pressed
press_cancel(i) ==
  \E tool_call \in {messages[i].tool_calls[1]} :
    IF is_executed(messages, executed_keys, i)
    THEN /\ executed_keys' = render_all(messages, executed_keys)
         /\ ui_last' = [op |-> "cancel", call |-> tool_call.id,
                        outcome |-> "ignored"]
         /\ UNCHANGED <<messages, conversation_id, conversation_store, calls,
                        tool_runs, confirmed, status, sessions, repl_globals>>
    ELSE \E msgs \in {Append(messages,
                        ToolMessage(CANCELLED, tool_call.id, tool_call.name,
                                    tool_call.id))} :
         /\ messages' = msgs
         /\ executed_keys' =
              render_all(msgs, executed_keys \cup {executed_key(i, tool_call)})
         /\ status' = [status EXCEPT ![tool_call.id] = "cancelled"]
         /\ ui_last' = [op |-> "cancel", call |-> tool_call.id, outcome |-> "done"]
         /\ UNCHANGED <<conversation_id, conversation_store, calls, tool_runs,
                        confirmed, sessions, repl_globals>>

\* _render_conversation_management 561-565: a stored conversation is loaded
load_conversation ==
  /\ conversation_store # <<>>
  /\ conversation_id' = "conv"
  /\ messages' = <<>>
  /\ ui_last' = [op |-> "load", call |-> 0, outcome |-> "done"]
  /\ UNCHANGED <<executed_keys, conversation_store, calls, tool_runs, confirmed,
                 status, sessions, repl_globals>>

\* _clear_conversation 486-504
clear_conversation ==
  /\ messages' = <<>>
  /\ conversation_id' = NoConversation
  /\ conversation_store' = <<>>
  /\ executed_keys' = {}
  /\ ui_last' = [op |-> "clear", call |-> 0, outcome |-> "done"]
  /\ UNCHANGED <<calls, tool_runs, confirmed, status, sessions, repl_globals>>

\* the page is opened in a new browser session: session state starts over
\* 1099-1111
new_session ==
  /\ sessions < MaxSessions
  /\ sessions' = sessions + 1
  /\ messages' = <<>>
  /\ executed_keys' = {}
  /\ conversation_id' = NoConversation
  /\ ui_last' = [op |-> "session", call |-> 0, outcome |-> "done"]
  /\ UNCHANGED <<conversation_store, calls, tool_runs, confirmed, status,
                 repl_globals>>

\* RNAAnalysisAgent._should_continue
should_continue(last_message) ==
  IF last_message.type = "AI" /\ last_message.tool_calls # <<>>
  THEN "continue" ELSE "end"

\* process_user_message: the graph of _create_graph is invoked; the model
\* answers with a call of the named tool and the "tools" node runs it
process_user_message(name) ==
  \E tool_call \in {ToolCall(name, Len(calls) + 1)} :
     /\ Len(calls) < MaxChats
     /\ should_continue(AIMessage("", <<tool_call>>)) = "continue"
     /\ calls' = Append(calls, tool_call)
     /\ tool_runs' = [tool_runs EXCEPT ![tool_call.id] = @ + 1]
     /\ repl_globals' = tool_namespace(repl_globals, name)
     /\ status' = [status EXCEPT ![tool_call.id] = "executed"]
     /\ ui_last' = [op |-> "graph", call |-> tool_call.id, outcome |-> "done"]
     /\ UNCHANGED <<messages, executed_keys, conversation_id, conversation_store,
                    confirmed, sessions>>

\* ------------------------------------------------------ cache key corpus
\* the calls whose keys are compared: every function with every argument
\* tuple and every keyword dict, the latter in the order the caller wrote it
KeyArgs ==
  { <<PyInt("1")>>, <<PyInt("2")>>, <<PyStr("1")>>, <<PyObj("1")>>,
    <<PyTuple(<<PyInt("1"), PyInt("2")>>)>>,
    <<PyList(<<PyInt("1"), PyInt("2")>>)>> }
Kw(n, v) == [name |-> n, val |-> v]
KeyKwargs ==
  { <<>>,
    <<Kw("a", PyInt("1")), Kw("b", PyInt("2"))>>,
    <<Kw("b", PyInt("2")), Kw("a", PyInt("1"))>>,
    <<Kw("a", PyInt("2")), Kw("b", PyInt("1"))>> }
KeyCalls == [func : Funcs, args : KeyArgs, kwargs : KeyKwargs]
NoCall == [func |-> CHOOSE f \in Funcs : f.id = "calc", args |-> <<PyInt("1")>>,
           kwargs |-> <<>>]

VARIABLES
  call1, call2,  \* two calls of memoized functions
  key1, key2     \* their cache keys, NoKey until generated

key_vars == <<call1, call2, key1, key2>>

KeyIdle == call1 = NoCall /\ call2 = NoCall /\ key1 = NoKey /\ key2 = NoKey
KeyDraw == call1 \in KeyCalls /\ call2 \in KeyCalls /\ key1 = NoKey /\ key2 = NoKey

\* wrapper 280 for both calls
GenerateKeys ==
  /\ key1 = NoKey
  /\ key1' = generate_key(call1.func.name, call1.args, call1.kwargs)
  /\ key2' = generate_key(call2.func.name, call2.args, call2.kwargs)
  /\ UNCHANGED <<call1, call2>>

\* ------------------------------------------------- DiskCache, step by step
\* the threads that use the DiskCache: callers of get / set / clear and the
\* cleanup thread of CacheManager._start_cleanup_timer
DiskThreads == {"t1", "t2"}
DiskValues == {"a"}
DiskTTLs == {1}
\* a file opened for writing whose write did not complete
Partial == <<"partial">>
CorruptMeta == [NoMeta EXCEPT !.kind = "corrupt"]

VARIABLES
  disk_lock,     \* DiskCache._lock: "free" or the thread that holds it
  disk_ops       \* per thread: the DiskCache operation in progress, its locals

disk_vars == <<disk_lock, disk_ops>>

DiskIdle == [pc |-> "idle", op |-> "none", key |-> NoKey, value |-> PyNone,
             ttl |-> 0, meta |-> NoMeta, time |-> 0, todo |-> {}, ret |-> PyNone]

\* DiskCache.__init__
DiskInit ==
  /\ disk_lock = "free"
  /\ disk_ops = [t \in DiskThreads |-> DiskIdle]

At(t, pc) == disk_ops[t].pc = pc
\* the memory tier is not touched by the DiskCache
DiskFrame == UNCHANGED <<cache, current_size, window>>

\* file_path.exists() / meta_path.exists()
file_exists(p, k) == p[k] # NoFile
meta_exists(m, k) == m[k].kind # "none"

\* time passes between two steps
DiskTick ==
  /\ now < MaxTime
  /\ now' = now + 1
  /\ UNCHANGED <<payload, meta, last, disk_lock, disk_ops>>
  /\ DiskFrame

\* DiskCache.set 194-197
DiskCache_set_call(t, k, v, ttl) ==
  /\ At(t, "idle")
  /\ disk_ops' = [disk_ops EXCEPT ![t] =
                    [DiskIdle EXCEPT !.pc = "set_lock", !.op = "disk_set",
                                     !.key = k, !.value = v, !.ttl = ttl]]
  /\ UNCHANGED <<now, payload, meta, last, disk_lock>>
  /\ DiskFrame

\* DiskCache.set 200: with self._lock
DiskCache_set_acquire(t) ==
  /\ At(t, "set_lock")
  /\ lock_acquirable(disk_lock)
  /\ disk_lock' = t
  /\ disk_ops' = [disk_ops EXCEPT ![t].pc = "set_payload"]
  /\ UNCHANGED <<now, payload, meta, last>>
  /\ DiskFrame

\* DiskCache.set 202-203: the payload file is opened and written; on an
\* exception the lock is released and the handler of 216-218 runs
DiskCache_set_payload(t, io) ==
  /\ At(t, "set_payload")
  /\ payload' = [payload EXCEPT ![disk_ops[t].key] =
                   IF io = "ok" THEN pickle_dumps(disk_ops[t].value) ELSE Partial]
  /\ disk_lock' = IF io = "ok" THEN disk_lock ELSE "free"
  /\ disk_ops' = [disk_ops EXCEPT ![t].pc =
                    IF io = "ok" THEN "set_meta" ELSE "remove_file"]
  /\ UNCHANGED <<now, meta, last>>
  /\ DiskFrame

\* DiskCache.set 206-214: the metadata file is opened and written
DiskCache_set_meta(t, io) ==
  /\ At(t, "set_meta")
  /\ meta' = [meta EXCEPT ![disk_ops[t].key] =
                IF io = "ok" THEN new_meta(disk_ops[t].ttl, now) ELSE CorruptMeta]
  /\ disk_lock' = "free"
  /\ disk_ops' = [disk_ops EXCEPT ![t].pc =
                    IF io = "ok" THEN "return" ELSE "remove_file"]
  /\ UNCHANGED <<now, payload, last>>
  /\ DiskFrame

\* where control goes when _remove_cache_files returns
after_remove(op) == IF op = "cleanup_expired" THEN "cleanup_next" ELSE "return"

\* DiskCache._remove_cache_files 226-227, 230-231: an exception of unlink
\* skips the metadata file
remove_cache_files_payload(t, io) ==
  /\ At(t, "remove_file")
  /\ payload' = IF io = "ok" THEN [payload EXCEPT ![disk_ops[t].key] = NoFile]
                ELSE payload
  /\ disk_ops' = [disk_ops EXCEPT ![t].pc =
                    IF io = "ok" \/ ~file_exists(payload, disk_ops[t].key)
                    THEN "remove_meta" ELSE after_remove(disk_ops[t].op)]
  /\ UNCHANGED <<now, meta, last, disk_lock>>
  /\ DiskFrame

\* DiskCache._remove_cache_files 228-231
remove_cache_files_meta(t, io) ==
  /\ At(t, "remove_meta")
  /\ meta' = IF io = "ok" THEN [meta EXCEPT ![disk_ops[t].key] = NoMeta] ELSE meta
  /\ disk_ops' = [disk_ops EXCEPT ![t].pc = after_remove(disk_ops[t].op)]
  /\ UNCHANGED <<now, payload, last, disk_lock>>
  /\ DiskFrame

\* DiskCache.get 159-162
DiskCache_get_call(t, k) ==
  /\ At(t, "idle")
  /\ disk_ops' = [disk_ops EXCEPT ![t] =
                    [DiskIdle EXCEPT !.pc = "get_exists", !.op = "disk_get",
                                     !.key = k]]
  /\ UNCHANGED <<now, payload, meta, last, disk_lock>>
  /\ DiskFrame

\* DiskCache.get 164-165
DiskCache_get_exists(t) ==
  /\ At(t, "get_exists")
  /\ disk_ops' = [disk_ops EXCEPT ![t].pc =
                    IF /\ file_exists(payload, disk_ops[t].key)
                       /\ meta_exists(meta, disk_ops[t].key)
                    THEN "get_meta" ELSE "return"]
  /\ UNCHANGED <<now, payload, meta, last, disk_lock>>
  /\ DiskFrame

\* DiskCache.get 169-175: the metadata is read and parsed, expiry is tested;
\* a file that is gone or not JSON raises like a failed read (189-191);
\* the access_count read stays below the bound
DiskCache_get_meta(t, io) ==
  /\ At(t, "get_meta")
  /\ meta[disk_ops[t].key].access_count < MaxAccess
  /\ disk_ops' = [disk_ops EXCEPT ![t] =
       IF io = "fail" \/ meta[disk_ops[t].key].kind # "json"
       THEN [disk_ops[t] EXCEPT !.pc = "remove_file"]
       ELSE [disk_ops[t] EXCEPT
               !.meta = meta[disk_ops[t].key],
               !.pc = IF meta_expired(meta[disk_ops[t].key], now)
                      THEN "remove_file" ELSE "get_payload"]]
  /\ UNCHANGED <<now, payload, meta, last, disk_lock>>
  /\ DiskFrame

\* DiskCache.get 178-179: the payload is read and unpickled
DiskCache_get_payload(t, io) ==
  /\ At(t, "get_payload")
  /\ disk_ops' = [disk_ops EXCEPT ![t] =
       IF io = "fail" \/ payload[disk_ops[t].key] \in {NoFile, Partial}
       THEN [disk_ops[t] EXCEPT !.pc = "remove_file"]
       ELSE [disk_ops[t] EXCEPT !.value = pickle_loads(payload[disk_ops[t].key]),
                                !.pc = "get_write"]]
  /\ UNCHANGED <<now, payload, meta, last, disk_lock>>
  /\ DiskFrame

\* DiskCache.get 182-187: the metadata read at 170 is updated and written
\* back; open(meta_path, 'w') creates the file if it is gone
DiskCache_get_write(t, io) ==
  /\ At(t, "get_write")
  /\ meta' = [meta EXCEPT ![disk_ops[t].key] =
                IF io = "ok"
                THEN [disk_ops[t].meta EXCEPT !.access_time = now,
                                              !.access_count = @ + 1]
                ELSE CorruptMeta]
  /\ disk_ops' = [disk_ops EXCEPT ![t] =
       IF io = "ok"
       THEN [disk_ops[t] EXCEPT !.ret = disk_ops[t].value, !.pc = "return"]
       ELSE [disk_ops[t] EXCEPT !.pc = "remove_file"]]
  /\ UNCHANGED <<now, payload, last, disk_lock>>
  /\ DiskFrame

\* DiskCache.clear 233-235
DiskCache_clear_call(t) ==
  /\ At(t, "idle")
  /\ disk_ops' = [disk_ops EXCEPT ![t] =
                    [DiskIdle EXCEPT !.pc = "clear_cache", !.op = "disk_clear"]]
  /\ UNCHANGED <<now, payload, meta, last, disk_lock>>
  /\ DiskFrame

\* DiskCache.clear 236-237, 240-241: an exception of unlink ends the call
DiskCache_clear_cache(t, io) ==
  /\ At(t, "clear_cache")
  /\ payload' = IF io = "ok" THEN [k \in Keys |-> NoFile] ELSE payload
  /\ disk_ops' = [disk_ops EXCEPT ![t].pc =
                    IF io = "ok" \/ \A k \in Keys : ~file_exists(payload, k)
                    THEN "clear_meta" ELSE "return"]
  /\ UNCHANGED <<now, meta, last, disk_lock>>
  /\ DiskFrame

\* DiskCache.clear 238-241
DiskCache_clear_meta(t, io) ==
  /\ At(t, "clear_meta")
  /\ meta' = IF io = "ok" THEN [k \in Keys |-> NoMeta] ELSE meta
  /\ disk_ops' = [disk_ops EXCEPT ![t].pc = "return"]
  /\ UNCHANGED <<now, payload, last, disk_lock>>
  /\ DiskFrame

\* DiskCache.cleanup_expired 245-247: current_time is taken, the metadata
\* files are listed
cleanup_expired_call(t) ==
  /\ At(t, "idle")
  /\ disk_ops' = [disk_ops EXCEPT ![t] =
                    [DiskIdle EXCEPT !.pc = "cleanup_next",
                                     !.op = "cleanup_expired", !.time = now,
                                     !.todo = {k \in Keys : meta_exists(meta, k)}]]
  /\ UNCHANGED <<now, payload, meta, last, disk_lock>>
  /\ DiskFrame

\* DiskCache.cleanup_expired 247: the next metadata file of the listing
cleanup_expired_next(t) ==
  /\ At(t, "cleanup_next")
  /\ disk_ops' = [disk_ops EXCEPT ![t] =
       IF disk_ops[t].todo = {}
       THEN [disk_ops[t] EXCEPT !.pc = "return"]
       ELSE [disk_ops[t] EXCEPT
               !.key = CHOOSE k \in disk_ops[t].todo : TRUE,
               !.todo = @ \ {CHOOSE k \in disk_ops[t].todo : TRUE},
               !.pc = "cleanup_meta"]]
  /\ UNCHANGED <<now, payload, meta, last, disk_lock>>
  /\ DiskFrame

\* DiskCache.cleanup_expired 249-254: the metadata is read and parsed; an
\* expired entry is removed, an exception goes to the handler of 256-262
cleanup_expired_meta(t, io) ==
  /\ At(t, "cleanup_meta")
  /\ disk_ops' = [disk_ops EXCEPT ![t].pc =
       IF io = "fail" \/ meta[disk_ops[t].key].kind # "json"
       THEN "cleanup_unlink"
       ELSE IF disk_ops[t].time > meta[disk_ops[t].key].expires_at
       THEN "remove_file" ELSE "cleanup_next"]
  /\ UNCHANGED <<now, payload, meta, last, disk_lock>>
  /\ DiskFrame

\* DiskCache.cleanup_expired 256-262: the handler unlinks meta_path and
\* ignores a failure of the unlink
cleanup_expired_unlink(t, io) ==
  /\ At(t, "cleanup_unlink")
  /\ meta' = IF io = "ok" THEN [meta EXCEPT ![disk_ops[t].key] = NoMeta] ELSE meta
  /\ disk_ops' = [disk_ops EXCEPT ![t].pc = "cleanup_next"]
  /\ UNCHANGED <<now, payload, last, disk_lock>>
  /\ DiskFrame

\* the operation of thread t returns to its caller
DiskCache_return(t) ==
  /\ At(t, "return")
  /\ disk_ops' = [disk_ops EXCEPT ![t] = DiskIdle]
  /\ UNCHANGED <<now, payload, meta, last, disk_lock>>
  /\ DiskFrame

\* ------------------------------------------- figures of an execution
MaxRuns == 3
\* what a statement of the submitted code does to the figure registry:
\* plt.figure() opens a figure, raise stops the run with an exception
PlotStmts == {"figure", "pass", "raise"}
PlotCodes == { <<a>> : a \in PlotStmts } \cup { <<a, b>> : a, b \in PlotStmts }
                \cup { <<a, b, c>> : a, b, c \in PlotStmts }

VARIABLES
  figures,      \* matplotlib's registry (plt.get_fignums()): per open figure,
                \* the number of the run that created it
  runs,         \* number of runs of _execute_with_capture so far
  plot_last     \* the result of the last run

plot_vars == <<figures, runs, plot_last>>

NoRun == [success |-> TRUE, plots |-> <<>>, created |-> 0]
PlotInit ==
  /\ figures = <<>>
  /\ runs = 0
  /\ plot_last = NoRun

\* exec(code, self.globals_dict) (89) as far as figures go: the registry
\* after the run, the error it stopped with, the number of figures it opened
RECURSIVE exec_figures(_, _, _, _)
exec_figures(code, figs, run, created) ==
  IF code = <<>> THEN [figures |-> figs, error |-> "None", created |-> created]
  ELSE IF Head(code) = "raise"
  THEN [figures |-> figs, error |-> "Exception", created |-> created]
  ELSE IF Head(code) = "figure"
  THEN exec_figures(Tail(code), Append(figs, run), run, created + 1)
  ELSE exec_figures(Tail(code), figs, run, created)

\* ExecutionManager._save_plots: every open figure is saved and the
\* registry is closed; io = "fail" is an exception of savefig (128-129),
\* which skips plt.close('all')
save_plots(figs, io) ==
  IF figs = <<>> THEN [plots |-> <<>>, figures |-> figs]
  ELSE IF io = "fail" THEN [plots |-> <<>>, figures |-> figs]
  ELSE [plots |-> figs, figures |-> <<>>]

\* _execute_with_capture 87-94: _save_plots is called inside the try, after
\* exec returned; an exception of exec skips it
plots_of_run(r, io) ==
  IF r.error = "None" THEN save_plots(r.figures, io)
  ELSE [plots |-> <<>>, figures |-> r.figures]

\* ExecutionManager._execute_with_capture(code)
execute_with_capture(code, io) ==
  /\ runs < MaxRuns
  /\ \E r \in {exec_figures(code, figures, runs + 1, 0)} :
     \E sp \in {plots_of_run(r, io)} :
        /\ figures' = sp.figures
        /\ runs' = runs + 1
        /\ plot_last' = [success |-> r.error = "None", plots |-> sp.plots,
                         created |-> r.created]

\* --------------------------------------------- InMemoryCache, step by step
\* a caller of get / set / clear and the cleanup thread of
\* CacheManager._start_cleanup_timer, which calls _evict_entries
MemThreads == {"caller", "cleanup"}
MemValues == {"a"}
MemTTLs == {1}
\* how far a lost update may take current_size below zero or above max_size
MaxDrift == 2
SizeInRange(cs) == cs >= 0 - MaxDrift /\ cs <= max_size + MaxDrift

VARIABLES
  mem_lock,      \* InMemoryCache._lock: "free" or the thread that holds it
  mem_ops,       \* per thread: the operation in progress and its locals
  mem_calls      \* the number of operations begun so far

mem_vars == <<mem_lock, mem_ops, mem_calls>>
\* the operations one run begins
MaxMemCalls == 4

NoEntry == CacheEntry(NoKey, PyNone, 0, 0)
MemIdle == [pc |-> "idle", op |-> "none", key |-> NoKey, entry |-> NoEntry,
            items |-> <<>>, freed_size |-> 0, required_size |-> 0,
            loaded |-> 0, cont |-> "return", ret |-> PyNone, raised |-> "None"]

\* InMemoryCache.__init__
MemInit ==
  /\ mem_lock = "free"
  /\ mem_ops = [t \in MemThreads |-> MemIdle]
  /\ mem_calls = 0

MemAt(t, pc) == mem_ops[t].pc = pc
\* the disk tier and the bookkeeping of completed calls are not touched
MemFrame == UNCHANGED <<payload, meta, window, last, mem_calls>>
\* one more operation begins
MemBegin ==
  /\ mem_calls < MaxMemCalls
  /\ mem_calls' = mem_calls + 1
  /\ UNCHANGED <<payload, meta, window, last>>
\* the lock after thread t leaves a `with self._lock` block it may be in
released(t) == IF mem_lock = t THEN "free" ELSE mem_lock

\* time passes between two steps
MemTick ==
  /\ now < MaxTime
  /\ now' = now + 1
  /\ UNCHANGED <<cache, current_size, mem_lock, mem_ops>>
  /\ MemFrame

\* InMemoryCache.set 85-86
InMemoryCache_set_call(t, k, v, ttl) ==
  /\ t = "caller"
  /\ MemAt(t, "idle")
  /\ mem_ops' = [mem_ops EXCEPT ![t] =
                   [MemIdle EXCEPT !.pc = "lock", !.op = "mem_set", !.key = k,
                                   !.entry = CacheEntry(k, v, ttl, 0),
                                   !.cont = "set_entry"]]
  /\ UNCHANGED <<now, cache, current_size, mem_lock>>
  /\ MemBegin

\* InMemoryCache.get 71-72
InMemoryCache_get_call(t, k) ==
  /\ t = "caller"
  /\ MemAt(t, "idle")
  /\ mem_ops' = [mem_ops EXCEPT ![t] =
                   [MemIdle EXCEPT !.pc = "lock", !.op = "mem_get", !.key = k,
                                   !.cont = "get_lookup"]]
  /\ UNCHANGED <<now, cache, current_size, mem_lock>>
  /\ MemBegin

\* InMemoryCache.clear 122-123
InMemoryCache_clear_call(t) ==
  /\ t = "caller"
  /\ MemAt(t, "idle")
  /\ mem_ops' = [mem_ops EXCEPT ![t] =
                   [MemIdle EXCEPT !.pc = "lock", !.op = "mem_clear",
                                   !.cont = "clear_store"]]
  /\ UNCHANGED <<now, cache, current_size, mem_lock>>
  /\ MemBegin

\* `with self._lock` of get (73), set (87) and clear (124)
InMemoryCache_acquire(t) ==
  /\ MemAt(t, "lock")
  /\ lock_acquirable(mem_lock)
  /\ mem_lock' = t
  /\ mem_ops' = [mem_ops EXCEPT ![t].pc = mem_ops[t].cont]
  /\ UNCHANGED <<now, cache, current_size>>
  /\ MemFrame

\* InMemoryCache.set 88-92: the entry is built, _should_evict reads
\* current_size
InMemoryCache_set_entry(t) ==
  /\ MemAt(t, "set_entry")
  /\ mem_ops' = [mem_ops EXCEPT ![t] =
       [mem_ops[t] EXCEPT
          !.entry = CacheEntry(mem_ops[t].key, mem_ops[t].entry.value,
                               mem_ops[t].entry.ttl, now),
          !.required_size = mem_ops[t].entry.size,
          !.cont = "set_put",
          !.pc = IF should_evict(current_size, mem_ops[t].entry.size)
                 THEN "evict_sort" ELSE "set_put"]]
  /\ UNCHANGED <<now, cache, current_size, mem_lock>>
  /\ MemFrame

\* CacheManager.cleanup 326-329 under memory pressure: _evict_entries is
\* called with a quarter of current_size, without the lock
CacheManager_cleanup_call(t) ==
  /\ t = "cleanup"
  /\ MemAt(t, "idle")
  /\ mem_ops' = [mem_ops EXCEPT ![t] =
                   [MemIdle EXCEPT !.pc = "evict_sort", !.op = "cleanup",
                                   !.required_size = current_size \div 4,
                                   !.cont = "return"]]
  /\ UNCHANGED <<now, cache, current_size, mem_lock>>
  /\ MemBegin

\* _evict_entries 108-113: a sorted copy of the items is taken
evict_entries_sort(t) ==
  /\ MemAt(t, "evict_sort")
  /\ mem_ops' = [mem_ops EXCEPT ![t] =
                   [mem_ops[t] EXCEPT !.items = sorted_items(cache),
                                      !.freed_size = 0, !.pc = "evict_loop"]]
  /\ UNCHANGED <<now, cache, current_size, mem_lock>>
  /\ MemFrame

\* _evict_entries 114-116: the loop ends when the items are exhausted or
\* enough has been freed
evict_entries_loop(t) ==
  /\ MemAt(t, "evict_loop")
  /\ mem_ops' = [mem_ops EXCEPT ![t].pc =
       IF mem_ops[t].items = <<>>
            \/ mem_ops[t].freed_size >= mem_ops[t].required_size
       THEN mem_ops[t].cont ELSE "evict_del"]
  /\ UNCHANGED <<now, cache, current_size, mem_lock>>
  /\ MemFrame

\* _evict_entries 118: del self._cache[key]; a key that is gone raises
\* KeyError, which leaves set's with block (the lock is released) or is caught
\* by cleanup (332)
evict_entries_del(t) ==
  /\ MemAt(t, "evict_del")
  /\ IF HasKey(cache, Head(mem_ops[t].items).key)
     THEN /\ cache' = DelKey(cache, Head(mem_ops[t].items).key)
          /\ mem_ops' = [mem_ops EXCEPT ![t].pc = "evict_load"]
          /\ UNCHANGED mem_lock
     ELSE /\ cache' = cache
          /\ mem_lock' = released(t)
          /\ mem_ops' = [mem_ops EXCEPT ![t] =
               [mem_ops[t] EXCEPT
                  !.pc = "return",
                  !.raised = IF mem_ops[t].op = "cleanup" THEN "None"
                             ELSE "KeyError"]]
  /\ UNCHANGED <<now, current_size>>
  /\ MemFrame

\* _evict_entries 119-120: freed_size is advanced and current_size is read
evict_entries_load(t) ==
  /\ MemAt(t, "evict_load")
  /\ mem_ops' = [mem_ops EXCEPT ![t] =
       [mem_ops[t] EXCEPT
          !.freed_size = @ + Head(mem_ops[t].items).size,
          !.loaded = current_size,
          !.pc = "evict_store"]]
  /\ UNCHANGED <<now, cache, current_size, mem_lock>>
  /\ MemFrame

\* _evict_entries 120: current_size is written back
evict_entries_store(t) ==
  /\ MemAt(t, "evict_store")
  /\ current_size' = mem_ops[t].loaded - Head(mem_ops[t].items).size
  /\ SizeInRange(current_size')
  /\ mem_ops' = [mem_ops EXCEPT ![t] =
       [mem_ops[t] EXCEPT !.items = Tail(@), !.pc = "evict_loop"]]
  /\ UNCHANGED <<now, cache, mem_lock>>
  /\ MemFrame

\* InMemoryCache.set 95-99: an old entry gives its size back, the entry is
\* stored, the lock is released
InMemoryCache_set_put(t) ==
  /\ MemAt(t, "set_put")
  /\ cache' = PutKey(cache, mem_ops[t].key, mem_ops[t].entry)
  /\ current_size' = size_without_old(cache, current_size, mem_ops[t].key)
                       + mem_ops[t].entry.size
  /\ SizeInRange(current_size')
  /\ mem_lock' = released(t)
  /\ mem_ops' = [mem_ops EXCEPT ![t].pc = "return"]
  /\ UNCHANGED now
  /\ MemFrame

\* InMemoryCache.get 74-76, 80-83: a missing key and a live entry end the
\* call; an expired entry goes to its removal
InMemoryCache_get_lookup(t) ==
  /\ MemAt(t, "get_lookup")
  /\ MemHitAllowed(cache, mem_ops[t].key, now, MaxAccess)
  /\ IF ~HasKey(cache, mem_ops[t].key)
     THEN /\ cache' = cache
          /\ mem_lock' = released(t)
          /\ mem_ops' = [mem_ops EXCEPT ![t].pc = "return"]
     ELSE IF is_expired(Lookup(cache, mem_ops[t].key), now)
     THEN /\ cache' = cache
          /\ mem_lock' = mem_lock
          /\ mem_ops' = [mem_ops EXCEPT ![t] =
               [mem_ops[t] EXCEPT !.entry = Lookup(cache, mem_ops[t].key),
                                  !.pc = "get_del"]]
     ELSE /\ cache' = PutKey(cache, mem_ops[t].key,
                             touch(Lookup(cache, mem_ops[t].key), now))
          /\ mem_lock' = released(t)
          /\ mem_ops' = [mem_ops EXCEPT ![t] =
               [mem_ops[t] EXCEPT !.ret = Lookup(cache, mem_ops[t].key).value,
                                  !.pc = "return"]]
  /\ UNCHANGED <<now, current_size>>
  /\ MemFrame

\* InMemoryCache.get 77: del self._cache[key]; KeyError if the key is gone
InMemoryCache_get_del(t) ==
  /\ MemAt(t, "get_del")
  /\ IF HasKey(cache, mem_ops[t].key)
     THEN /\ cache' = DelKey(cache, mem_ops[t].key)
          /\ mem_lock' = mem_lock
          /\ mem_ops' = [mem_ops EXCEPT ![t].pc = "get_size"]
     ELSE /\ cache' = cache
          /\ mem_lock' = released(t)
          /\ mem_ops' = [mem_ops EXCEPT ![t] =
               [mem_ops[t] EXCEPT !.pc = "return", !.raised = "KeyError"]]
  /\ UNCHANGED <<now, current_size>>
  /\ MemFrame

\* InMemoryCache.get 78-79
InMemoryCache_get_size(t) ==
  /\ MemAt(t, "get_size")
  /\ current_size' = current_size - mem_ops[t].entry.size
  /\ SizeInRange(current_size')
  /\ mem_lock' = released(t)
  /\ mem_ops' = [mem_ops EXCEPT ![t].pc = "return"]
  /\ UNCHANGED <<now, cache>>
  /\ MemFrame

\* InMemoryCache.clear 125
InMemoryCache_clear_store(t) ==
  /\ MemAt(t, "clear_store")
  /\ cache' = <<>>
  /\ mem_ops' = [mem_ops EXCEPT ![t].pc = "clear_size"]
  /\ UNCHANGED <<now, current_size, mem_lock>>
  /\ MemFrame

\* InMemoryCache.clear 126
InMemoryCache_clear_size(t) ==
  /\ MemAt(t, "clear_size")
  /\ current_size' = 0
  /\ mem_lock' = released(t)
  /\ mem_ops' = [mem_ops EXCEPT ![t].pc = "return"]
  /\ UNCHANGED <<now, cache>>
  /\ MemFrame

\* the operation of thread t returns to its caller
InMemoryCache_return(t) ==
  /\ MemAt(t, "return")
  /\ mem_ops' = [mem_ops EXCEPT ![t] = MemIdle]
  /\ UNCHANGED <<now, cache, current_size, mem_lock>>
  /\ MemFrame

\* ------------------------------- memoized calls and clear_all, step by step
\* two threads of the embedding application, each running a memoized call or
\* clear_all. InMemoryCache.get, set and clear hold InMemoryCache._lock for
\* their whole body, so each is one step; the operations of the disk tier
\* are taken as one step each
CallThreads == {"c1", "c2"}
CallFuncs == { f \in Funcs : f.id = "mod_a.load" }
CallResults == {"a", "big"}

VARIABLES
  call_ops       \* per thread: the call in progress and its locals

call_vars == <<call_ops>>

\* fresh: the keys whose computed result was stored while this clear_all ran
CallIdle == [pc |-> "idle", op |-> "none", func |-> "", key |-> NoKey,
             result |-> PyNone, ret |-> PyNone, computed |-> FALSE,
             fresh |-> {}]

CallInit == call_ops = [t \in CallThreads |-> CallIdle]

CallAt(t, pc) == call_ops[t].pc = pc
CallFunc(t) == CHOOSE f \in Funcs : f.id = call_ops[t].func
\* a result of a computation is stored under key k: every clear_all in
\* progress takes note
stored_fresh(ops, k) ==
  [u \in CallThreads |->
     IF ops[u].op = "clear_all" THEN [ops[u] EXCEPT !.fresh = @ \cup {k}]
     ELSE ops[u]]
\* the memory tier is written with value v under key k
mem_written(k, v) == [NoLast EXCEPT !.op = "mem_set", !.key = k, !.ret = v]

\* time passes between two steps
CallTick ==
  /\ now < MaxTime
  /\ now' = now + 1
  /\ UNCHANGED <<cache, current_size, payload, meta, window, last, call_ops>>

\* wrapper 278-280: the call begins and builds its key; result is what
\* func(*args) returns if it is invoked
wrapper_call(t, f, args, result) ==
  /\ CallAt(t, "idle")
  /\ call_ops' = [call_ops EXCEPT ![t] =
                    [CallIdle EXCEPT !.pc = "memory_get", !.op = "memo",
                                     !.func = f.id, !.key = KeyOfCall[f, args],
                                     !.result = result]]
  /\ UNCHANGED <<now, cache, current_size, payload, meta, window, last>>

\* wrapper 283-288: the memory tier is asked
wrapper_memory_get(t) ==
  /\ CallAt(t, "memory_get")
  /\ MemHitAllowed(cache, call_ops[t].key, now, MaxAccess)
  /\ \E g \in {mem_get(cache, current_size, call_ops[t].key, now)} :
       /\ cache' = g.cache
       /\ current_size' = g.current_size
       /\ call_ops' = [call_ops EXCEPT ![t] =
            [call_ops[t] EXCEPT
               !.ret = g.ret,
               !.pc = IF is_hit(g.ret) THEN "return"
                      ELSE IF CallFunc(t).use_disk /\ enable_data_cache
                      THEN "disk_get" ELSE "compute"]]
  /\ UNCHANGED <<now, payload, meta, window, last>>

\* wrapper 289-290: the disk tier is asked
wrapper_disk_get(t, io) ==
  /\ CallAt(t, "disk_get")
  /\ DiskHitAllowed(payload, meta, call_ops[t].key, now, MaxAccess)
  /\ \E d \in {disk_get(payload, meta, call_ops[t].key, now, io)} :
       /\ payload' = d.payload
       /\ meta' = d.meta
       /\ call_ops' = [call_ops EXCEPT ![t] =
            [call_ops[t] EXCEPT
               !.ret = d.ret,
               !.pc = IF is_hit(d.ret) THEN "promote" ELSE "compute"]]
  /\ UNCHANGED <<now, cache, current_size, window, last>>

\* wrapper 291-293: the disk hit is put back into memory
wrapper_promote(t) ==
  /\ CallAt(t, "promote")
  /\ \E r \in {mem_set(cache, current_size, call_ops[t].key, call_ops[t].ret,
                       CallFunc(t).ttl, now)} :
       /\ cache' = r.cache
       /\ current_size' = r.current_size
  /\ last' = mem_written(call_ops[t].key, call_ops[t].ret)
  /\ call_ops' = [call_ops EXCEPT ![t].pc = "return"]
  /\ UNCHANGED <<now, payload, meta, window>>

\* wrapper 296: func(*args, **kwargs) returns
wrapper_compute(t) ==
  /\ CallAt(t, "compute")
  /\ call_ops' = [call_ops EXCEPT ![t] =
                    [call_ops[t] EXCEPT !.ret = call_ops[t].result,
                                        !.computed = TRUE,
                                        !.pc = "memory_set"]]
  /\ UNCHANGED <<now, cache, current_size, payload, meta, window, last>>

\* a store that leaves an entry already in the memory tier as it is
wrapper_memory_set_first_wins(t) ==
  /\ CallAt(t, "memory_set")
  /\ \E r \in {IF HasKey(cache, call_ops[t].key)
               THEN [cache |-> cache, current_size |-> current_size]
               ELSE mem_set(cache, current_size, call_ops[t].key,
                            call_ops[t].ret, CallFunc(t).ttl, now)} :
       /\ cache' = r.cache
       /\ current_size' = r.current_size
  /\ last' = mem_written(call_ops[t].key, call_ops[t].ret)
  /\ call_ops' = [stored_fresh(call_ops, call_ops[t].key) EXCEPT ![t].pc =
                    IF CallFunc(t).use_disk /\ enable_data_cache
                    THEN "disk_set" ELSE "return"]
  /\ UNCHANGED <<now, payload, meta, window>>

\* wrapper 299: the computed result is stored in the memory tier
wrapper_memory_set(t) ==
  /\ CallAt(t, "memory_set")
  /\ \E r \in {mem_set(cache, current_size, call_ops[t].key, call_ops[t].ret,
                       CallFunc(t).ttl, now)} :
       /\ cache' = r.cache
       /\ current_size' = r.current_size
  /\ last' = mem_written(call_ops[t].key, call_ops[t].ret)
  /\ call_ops' = [stored_fresh(call_ops, call_ops[t].key) EXCEPT ![t].pc =
                    IF CallFunc(t).use_disk /\ enable_data_cache
                    THEN "disk_set" ELSE "return"]
  /\ UNCHANGED <<now, payload, meta, window>>

\* wrapper 300-301: the computed result is stored in the disk tier
wrapper_disk_set(t, io) ==
  /\ CallAt(t, "disk_set")
  /\ \E r \in {disk_set(payload, meta, call_ops[t].key, call_ops[t].ret,
                        CallFunc(t).ttl, now, io)} :
       /\ payload' = r.payload
       /\ meta' = r.meta
  /\ call_ops' = [stored_fresh(call_ops, call_ops[t].key) EXCEPT ![t].pc = "return"]
  /\ UNCHANGED <<now, cache, current_size, window, last>>

\* CacheManager.clear_all 358: the call begins
clear_all_call(t) ==
  /\ CallAt(t, "idle")
  /\ call_ops' = [call_ops EXCEPT ![t] =
                    [CallIdle EXCEPT !.pc = "clear_memory", !.op = "clear_all"]]
  /\ UNCHANGED <<now, cache, current_size, payload, meta, window, last>>

\* CacheManager.clear_all 360: self.memory_cache.clear()
clear_all_memory(t) ==
  /\ CallAt(t, "clear_memory")
  /\ cache' = <<>>
  /\ current_size' = 0
  /\ call_ops' = [call_ops EXCEPT ![t].pc = "clear_disk"]
  /\ UNCHANGED <<now, payload, meta, window, last>>

\* CacheManager.clear_all 361: self.disk_cache.clear(), every unlink
\* succeeding
clear_all_disk(t) ==
  /\ CallAt(t, "clear_disk")
  /\ payload' = [k \in Keys |-> NoFile]
  /\ meta' = [k \in Keys |-> NoMeta]
  /\ call_ops' = [call_ops EXCEPT ![t].pc = "return"]
  /\ UNCHANGED <<now, cache, current_size, window, last>>

\* the call of thread t returns to its caller
wrapper_return(t) ==
  /\ CallAt(t, "return")
  /\ call_ops' = [call_ops EXCEPT ![t] = CallIdle]
  /\ UNCHANGED <<now, cache, current_size, payload, meta, window, last>>

\* ---------------------------------------------------------- specifications
vars == <<now, cache, current_size, payload, meta, window, last,
          execution_manager, globals_dict, total_executions, repl_globals,
          exec_last, manager_global, managers, threads,
          messages, executed_keys, conversation_id, conversation_store, calls,
          tool_runs, confirmed, status, sessions, ui_last,
          call1, call2, key1, key2, disk_lock, disk_ops,
          figures, runs, plot_last, mem_lock, mem_ops, mem_calls, call_ops>>

Faults == {"ok", "fail"}
\* values that differ in size, used where eviction is exercised
SizedValues == {"a", "big"}
\* values and the key used where the two tiers are exercised side by side
SmallValues == {PyNone, "a"}
TierKeys == { generate_key("calc", <<PyInt("1")>>, <<>>) }
\* the keys used where the memory tier is exercised step by step
MemKeys == Keys \ TierKeys

MemNext ==
  \/ Tick
  \/ \E k \in Keys, v \in SizedValues, ttl \in TTLs : InMemoryCache_set(k, v, ttl)
  \/ \E k \in Keys : InMemoryCache_get(k, MaxAccess)
  \/ InMemoryCache_clear
  \/ \E pressure \in BOOLEAN : CacheManager_cleanup(pressure)

TiersNext ==
  \/ Tick
  \/ \E k \in TierKeys, v \in SmallValues, ttl \in TTLs : InMemoryCache_set(k, v, ttl)
  \/ \E k \in TierKeys : InMemoryCache_get(k, MaxAccess + 1)
  \/ \E k \in TierKeys, v \in SmallValues, ttl \in TTLs, io \in Faults :
       DiskCache_set(k, v, ttl, io)
  \/ \E k \in TierKeys, io \in Faults : DiskCache_get(k, io, MaxAccess + 1)
  \/ DiskCache_clear

MemoNext ==
  \/ Tick
  \/ \E f \in Funcs, a \in MemoArgs, result \in Values, io_get \in Faults, io_set \in Faults :
       wrapper(f, a, result, io_get, io_set)
  \/ clear_all
  \/ CacheManager_init
  \/ \E pressure \in BOOLEAN : CacheManager_cleanup(pressure)

ExecNext ==
  \/ get_execution_manager
  \/ \E code \in Codes : execute_code(code)
  \/ get_stats
  \/ \E command \in Commands : PythonREPL_run(command)

SessionNext ==
  \/ \E t \in Threads : get_execution_manager_test(t)
  \/ \E t \in Threads : ExecutionManager_init(t)
  \/ \E t \in Threads : ExecutionManager_init_environment(t)
  \/ \E t \in Threads : get_execution_manager_assign(t)
  \/ \E t \in Threads : get_execution_manager_return(t)
  \/ \E t \in Threads, code \in SessionCodes : execute_code_call(t, code)
  \/ \E t \in Threads : execute_code_acquire(t)
  \/ \E t \in Threads : exec_statement(t)
  \/ \E t \in Threads : execute_code_return(t)

DiskNext ==
  \/ DiskTick
  \/ \E t \in DiskThreads, k \in TierKeys, v \in DiskValues, ttl \in DiskTTLs :
       DiskCache_set_call(t, k, v, ttl)
  \/ \E t \in DiskThreads : DiskCache_set_acquire(t)
  \/ \E t \in DiskThreads, io \in Faults : DiskCache_set_payload(t, io)
  \/ \E t \in DiskThreads, io \in Faults : DiskCache_set_meta(t, io)
  \/ \E t \in DiskThreads, io \in Faults : remove_cache_files_payload(t, io)
  \/ \E t \in DiskThreads, io \in Faults : remove_cache_files_meta(t, io)
  \/ \E t \in DiskThreads, k \in TierKeys : DiskCache_get_call(t, k)
  \/ \E t \in DiskThreads : DiskCache_get_exists(t)
  \/ \E t \in DiskThreads, io \in Faults : DiskCache_get_meta(t, io)
  \/ \E t \in DiskThreads, io \in Faults : DiskCache_get_payload(t, io)
  \/ \E t \in DiskThreads, io \in Faults : DiskCache_get_write(t, io)
  \/ \E t \in DiskThreads : DiskCache_clear_call(t)
  \/ \E t \in DiskThreads, io \in Faults : DiskCache_clear_cache(t, io)
  \/ \E t \in DiskThreads, io \in Faults : DiskCache_clear_meta(t, io)
  \/ \E t \in DiskThreads : cleanup_expired_call(t)
  \/ \E t \in DiskThreads : cleanup_expired_next(t)
  \/ \E t \in DiskThreads, io \in Faults : cleanup_expired_meta(t, io)
  \/ \E t \in DiskThreads, io \in Faults : cleanup_expired_unlink(t, io)
  \/ \E t \in DiskThreads : DiskCache_return(t)

CallNext ==
  \/ CallTick
  \/ \E t \in CallThreads, f \in CallFuncs, a \in MemoArgs, result \in CallResults :
       wrapper_call(t, f, a, result)
  \/ \E t \in CallThreads : wrapper_memory_get(t)
  \/ \E t \in CallThreads, io \in Faults : wrapper_disk_get(t, io)
  \/ \E t \in CallThreads : wrapper_promote(t)
  \/ \E t \in CallThreads : wrapper_compute(t)
  \/ \E t \in CallThreads : wrapper_memory_set(t)
  \/ \E t \in CallThreads, io \in Faults : wrapper_disk_set(t, io)
  \/ \E t \in CallThreads : clear_all_call(t)
  \/ \E t \in CallThreads : clear_all_memory(t)
  \/ \E t \in CallThreads : clear_all_disk(t)
  \/ \E t \in CallThreads : wrapper_return(t)

EvictNext ==
  \/ MemTick
  \/ \E t \in MemThreads, k \in MemKeys, v \in MemValues, ttl \in MemTTLs :
       InMemoryCache_set_call(t, k, v, ttl)
  \/ \E t \in MemThreads, k \in MemKeys : InMemoryCache_get_call(t, k)
  \/ \E t \in MemThreads : InMemoryCache_clear_call(t)
  \/ \E t \in MemThreads : InMemoryCache_acquire(t)
  \/ \E t \in MemThreads : InMemoryCache_set_entry(t)
  \/ \E t \in MemThreads : CacheManager_cleanup_call(t)
  \/ \E t \in MemThreads : evict_entries_sort(t)
  \/ \E t \in MemThreads : evict_entries_loop(t)
  \/ \E t \in MemThreads : evict_entries_del(t)
  \/ \E t \in MemThreads : evict_entries_load(t)
  \/ \E t \in MemThreads : evict_entries_store(t)
  \/ \E t \in MemThreads : InMemoryCache_set_put(t)
  \/ \E t \in MemThreads : InMemoryCache_get_lookup(t)
  \/ \E t \in MemThreads : InMemoryCache_get_del(t)
  \/ \E t \in MemThreads : InMemoryCache_get_size(t)
  \/ \E t \in MemThreads : InMemoryCache_clear_store(t)
  \/ \E t \in MemThreads : InMemoryCache_clear_size(t)
  \/ \E t \in MemThreads : InMemoryCache_return(t)

PlotNext ==
  \E code \in PlotCodes, io \in Faults : execute_with_capture(code, io)

ConfirmNext ==
  \/ \E name \in ToolNames : handle_chat_input(name)
  \/ \E i \in ToolCallIndexes(messages), io \in Faults : press_run(i, io)
  \/ \E i \in ToolCallIndexes(messages) : press_cancel(i)
  \/ load_conversation
  \/ clear_conversation
  \/ new_session
  \/ \E name \in ToolNames : process_user_message(name)

\* the variables of the execution sessions other than the REPL namespace
session_only_vars == <<execution_manager, globals_dict, total_executions, exec_last>>

Init == CacheInit /\ ExecInit /\ SessionInit /\ ConfirmInit /\ KeyIdle /\ DiskInit
        /\ PlotInit /\ MemInit /\ CallInit
InitKey == CacheInit /\ ExecInit /\ SessionInit /\ ConfirmInit /\ KeyDraw /\ DiskInit
           /\ PlotInit /\ MemInit /\ CallInit
\* the memory tier
Spec == Init /\ [][MemNext /\ UNCHANGED <<exec_vars, session_vars, confirm_vars,
                                          key_vars, disk_vars, plot_vars, mem_vars,
      call_vars>>]_vars
\* both tiers used directly
SpecTiers == Init /\ [][TiersNext /\ UNCHANGED <<exec_vars, session_vars,
                                                 confirm_vars, key_vars,
                                                 disk_vars, plot_vars, mem_vars,
      call_vars>>]_vars
\* memoized calls through the cache manager
SpecMemo == Init /\ [][MemoNext /\ UNCHANGED <<exec_vars, session_vars,
                                               confirm_vars, key_vars,
                                               disk_vars, plot_vars, mem_vars,
      call_vars>>]_vars
\* the execution sessions
SpecExec == Init /\ [][ExecNext /\ UNCHANGED <<cache_vars, session_vars,
                                               confirm_vars, key_vars,
                                               disk_vars, plot_vars, mem_vars,
      call_vars>>]_vars
\* the execution session under concurrent callers
SpecSession == Init /\ [][SessionNext /\ UNCHANGED <<cache_vars, exec_vars,
                                                     confirm_vars, key_vars,
                                                     disk_vars, plot_vars, mem_vars,
      call_vars>>]_vars
\* tool calls and their confirmation
SpecConfirm == Init /\ [][ConfirmNext /\ UNCHANGED <<cache_vars, session_only_vars,
                                                     session_vars, key_vars,
                                                     disk_vars, plot_vars, mem_vars,
      call_vars>>]_vars
\* cache keys of pairs of calls
SpecKey == InitKey
           /\ [][GenerateKeys /\ UNCHANGED <<cache_vars, exec_vars, session_vars,
                                             confirm_vars, disk_vars, plot_vars, mem_vars,
      call_vars>>]_vars
\* the disk tier under concurrent callers, step by step
SpecDisk == Init /\ [][DiskNext /\ UNCHANGED <<exec_vars, session_vars,
                                               confirm_vars, key_vars,
                                               plot_vars, mem_vars,
      call_vars>>]_vars
\* the figures of successive executions
SpecPlots == Init /\ [][PlotNext /\ UNCHANGED <<cache_vars, exec_vars, session_vars,
                                                confirm_vars, key_vars,
                                                disk_vars, mem_vars,
                                                call_vars>>]_vars
\* the memory tier under a caller and the cleanup thread, step by step
SpecEvict == Init /\ [][EvictNext /\ UNCHANGED <<exec_vars, session_vars,
                                                 confirm_vars, key_vars,
                                                 disk_vars, plot_vars,
                                                 call_vars>>]_vars
\* two threads running memoized calls and clear_all, step by step
SpecCalls == Init /\ [][CallNext /\ UNCHANGED <<exec_vars, session_vars,
                                                 confirm_vars, key_vars,
                                                 disk_vars, plot_vars,
                                                 mem_vars>>]_vars

\* ------------------------------------------------------------- properties
FuncById(id) == CHOOSE f \in Funcs : f.id = id
\* the step just taken is a completed call of the named operation
Did(opname) == last'.op = opname /\ now' = now /\ cache_vars' # cache_vars

\* C1: after every completed InMemoryCache operation (set, get, clear, the
\* eviction of CacheManager.cleanup) current_size equals the sum of the sizes
\* of the entries in the store.
C1_SizeAccounting == current_size = SumSizes(cache)
\* a set that evicted and left at least two entries behind
C1_Witness == last.op = "mem_set" /\ last.evicted # <<>> /\ Len(cache) >= 2

\* C2: right after a set, current_size <= max_size, unless the store holds
\* only the entry just inserted and that entry alone exceeds max_size.
C2_SizeBound ==
  last.op = "mem_set" =>
    \/ current_size <= max_size
    \/ /\ Len(cache) = 1
       /\ cache[1].key = last.key
       /\ cache[1].size > max_size
\* a set that had to evict and ended within the bound with two entries
C2_Witness ==
  /\ last.op = "mem_set" /\ last.evicted # <<>>
  /\ Len(cache) = 2 /\ current_size <= max_size

\* C3: when a set evicts, no entry that was in the store before the set and
\* was not evicted has an access_time strictly older than an evicted entry.
C3_EvictsLeastRecentlyUsed ==
  [][Did("mem_set") =>
       \A i \in 1..Len(cache), j \in 1..Len(last'.evicted) :
          cache[i].key \notin KeysOf(last'.evicted)
            => ~(cache[i].access_time < last'.evicted[j].access_time)]_vars
\* an eviction spared an entry inserted before the victim, because a get had
\* refreshed it
C3_Witness ==
  /\ last.op = "mem_set"
  /\ \E i \in 1..Len(cache), j \in 1..Len(last.evicted) :
        /\ cache[i].key # last.key
        /\ cache[i].created_time < last.evicted[j].created_time
        /\ cache[i].access_time > last.evicted[j].access_time

\* C4: in each tier, a set followed by a get of the same key before the TTL
\* elapses, nothing else in between, returns the stored value as a hit, that
\* is, as something other than the miss result.
C4_RoundTrip ==
  [][/\ (last.op = "mem_set" /\ Did("mem_get") /\ last'.key = last.key
           /\ ~is_expired(Lookup(cache, last.key), now))
        => (last'.ret = Lookup(cache, last.key).value /\ last'.ret # PyNone)
     /\ (last.op = "disk_set" /\ last.io = "ok" /\ Did("disk_get")
           /\ last'.io = "ok" /\ last'.key = last.key
           /\ ~meta_expired(meta[last.key], now))
        => (last'.ret = pickle_loads(payload[last.key]) /\ last'.ret # PyNone)]_vars

C6_AtMostOncePerWindow ==
  [][(Did("memo") /\ window[last'.key].at # -1
        /\ now - window[last'.key].at <= window[last'.key].ttl)
     => (~last'.computed /\ last'.ret = window[last'.key].result)]_vars

\* C7: a memoized call with use_disk whose key is only in the disk tier
\* returns the disk value without invoking the computation and copies it into
\* memory; the next memoized call for the key is answered from memory with no
\* disk access.
C7_Promotion ==
  [][/\ (Did("memo") /\ FuncById(last'.func).use_disk /\ last'.io = "ok"
           /\ ~HasKey(cache, last'.key)
           /\ payload[last'.key] # NoFile /\ meta[last'.key].kind = "json"
           /\ ~meta_expired(meta[last'.key], now))
        => /\ ~last'.computed
           /\ last'.ret = pickle_loads(payload[last'.key])
           /\ HasKey(cache', last'.key)
           /\ Lookup(cache', last'.key).value = last'.ret
     /\ (last.op = "memo" /\ last.promoted /\ Did("memo") /\ last'.key = last.key
           /\ HasKey(cache, last.key) /\ ~is_expired(Lookup(cache, last.key), now))
        => (~last'.disk_read /\ ~last'.computed /\ last'.ret = last.ret)]_vars

\* the keyword arguments of two calls are the same dict
SameDict(kw1, kw2) ==
  { kw1[i] : i \in 1..Len(kw1) } = { kw2[i] : i \in 1..Len(kw2) }
\* C8: two calls of the same operation with the same positional and keyword
\* arguments, the keywords in any order, get the same key; two calls of the
\* same operation that differ in an argument value get different keys.
C8_KeyDeterminism ==
  (key1 # NoKey /\ call1.func = call2.func) =>
    IF call1.args = call2.args /\ SameDict(call1.kwargs, call2.kwargs)
    THEN key1 = key2
    ELSE key1 # key2

\* C9: a memoized call never returns a value that a different operation
\* computed and cached.
C9_NoCrossOperationHit ==
  [][(Did("memo") /\ ~last'.computed /\ window[last'.key].at # -1)
     => window[last'.key].by = last'.func]_vars

\* C10: in a session, a name changes its binding only when the submitted
\* code of an execute call assigns or deletes it; no execute call, failed or
\* not, and no other operation of the session resets the namespace.
C10_NamespacePersistence ==
  [][\A n \in Names :
       /\ (execution_manager = "created" /\ globals_dict'[n] # globals_dict[n])
            => (exec_last'.target = "execute_code" /\ n \in Rebinds(exec_last'.code))
       /\ (repl_globals'[n] # repl_globals[n])
            => (exec_last'.target = "run" /\ n \in Rebinds(exec_last'.code))]_vars
\* a failed execute_code after earlier ones, with a name the failing code did
\* not touch still bound in both sessions
C10_Witness ==
  /\ exec_last.target = "execute_code" /\ ~exec_last.success
  /\ total_executions >= 2
  /\ globals_dict["x"] = "1" /\ "x" \notin Rebinds(exec_last.code)
  /\ repl_globals["x"] = "1"

\* the threads running submitted code against the namespace of manager m
Running(m) ==
  { t \in Threads : threads[t].pc = "running" /\ threads[t].manager = m }
\* thread t leaves execute_code in this step
Leaves(t) == threads[t].pc = "running" /\ threads'[t].pc = "ready"

\* C11: however the submitted code fails, execute_code returns a result
\* instead of raising: success is false and error is set exactly when the
\* code failed, the bindings made before the failure stay as they are, and
\* the lock is free again.
C11_ErrorsAreData ==
  [][\A t \in Threads :
       Leaves(t) =>
         /\ threads'[t].result.outcome = "returned"
         /\ threads'[t].result.success = (threads[t].error = "None")
         /\ threads'[t].result.error = threads[t].error
         /\ managers'[threads[t].manager].globals_dict
              = managers[threads[t].manager].globals_dict
         /\ managers'[threads[t].manager].lock = "free"]_vars

\* C12: at most one thread runs submitted code against a manager's namespace
\* at any time, and a thread that runs it holds the manager's lock.
C12_MutualExclusion ==
  \A m \in Threads :
    /\ Cardinality(Running(m)) <= 1
    /\ \A t \in Running(m) : managers[m].lock = t
\* one thread is part-way through its code while the other waits for the lock
\* of the same manager, after an earlier execution on it has finished
C12_Witness ==
  \E t \in Threads, u \in Threads :
    /\ t # u
    /\ threads[t].pc = "running" /\ threads[t].done >= 1 /\ threads[t].code # <<>>
    /\ threads[u].pc = "waiting" /\ threads[u].manager = threads[t].manager
    /\ managers[threads[t].manager].total_executions >= 1

\* C13: whatever the interleaving of first-time callers, the seeding code runs
\* once in all and every caller that has obtained the session holds the same
\* manager.
C13_InitOnce ==
  /\ Cardinality({ m \in Threads : managers[m].init_runs > 0 }) <= 1
  /\ \A m \in Threads : managers[m].init_runs <= 1
  /\ \A t \in Threads, u \in Threads :
       (threads[t].manager # NoManager /\ threads[u].manager # NoManager)
         => threads[t].manager = threads[u].manager

\* the result entries of call n in the log that are not the placeholder
ResultEntries(n) ==
  { k \in 1..Len(messages) :
      messages[k].type = "Tool" /\ messages[k].call = n
      /\ messages[k].content # PLACEHOLDER }
\* the placeholder entries of call n in the log
PlaceholderEntries(n) ==
  { k \in 1..Len(messages) :
      messages[k].type = "Tool" /\ messages[k].tool_call_id = n
      /\ messages[k].content = PLACEHOLDER }
\* the request of call n is in the log
Requested(n) ==
  \E i \in ToolCallIndexes(messages) : messages[i].tool_calls[1].id = n
\* the step just taken handled a press of Execute or Cancel
Pressed ==
  /\ ui_last'.op \in {"run", "cancel"}
  /\ <<confirm_vars, repl_globals>>' # <<confirm_vars, repl_globals>>

\* C14: the code of a python_repl_tool call is never run unless the user
\* pressed Execute for that call before.
C14_ConfirmationGate ==
  \A n \in 1..Len(calls) :
    (requires_confirmation(calls[n].name) /\ tool_runs[n] > 0) => n \in confirmed

\* C15: however often a call is confirmed, re-rendered or replayed, its code
\* runs at most once and the log holds at most one result entry for it that
\* is not the placeholder.
C15_IdempotentConfirmation ==
  \A n \in CallIds :
    /\ tool_runs[n] <= 1
    /\ Cardinality(ResultEntries(n)) <= 1

\* C16: while a python_repl_tool call whose request is in the log awaits
\* confirmation, the log holds exactly one placeholder entry for it, and every
\* result entry of a call comes after the call's placeholder.
C16_PlaceholderConsistency ==
  \A n \in 1..Len(calls) :
    /\ (requires_confirmation(calls[n].name) /\ status[n] = "awaiting"
          /\ Requested(n))
         => Cardinality(PlaceholderEntries(n)) = 1
    /\ (requires_confirmation(calls[n].name) /\ Requested(n))
         => \A k \in ResultEntries(n) : \E q \in PlaceholderEntries(n) : q < k

\* C17: a cancelled call stays cancelled and its code is never run
\* afterwards; an executed call stays executed.
C17_TerminalFinal ==
  [][\A n \in CallIds :
       /\ status[n] = "cancelled"
            => (status'[n] = "cancelled" /\ tool_runs'[n] = tool_runs[n])
       /\ status[n] = "executed" => status'[n] = "executed"]_vars

\* C18: a press of Execute or Cancel for a call that is not awaiting
\* confirmation is not carried out: the status of every call, the log, the
\* runs of the tools and the namespace stay as they are.
C18_RejectNonAwaiting ==
  [][(Pressed /\ status[ui_last'.call] # "awaiting")
       => /\ ui_last'.outcome # "done"
          /\ status' = status
          /\ messages' = messages
          /\ tool_runs' = tool_runs
          /\ repl_globals' = repl_globals]_vars

DiskQuiet == \A t \in DiskThreads : At(t, "idle")
Paired(k) == file_exists(payload, k) <=> meta_exists(meta, k)

\* C20: after every completed DiskCache operation (set, get,
\* cleanup_expired, clear), no operation being in progress, each key has
\* either both its payload file and its metadata file or neither of them.
C20_DiskPairing == DiskQuiet => \A k \in Keys : Paired(k)

\* the step just taken is a memoized call that ran the computation
FullMiss == Did("memo") /\ last'.computed
\* the disk tier holds the result of the call just completed, in both files
DiskHoldsResult ==
  /\ payload'[last'.key] = pickle_dumps(last'.ret)
  /\ meta'[last'.key] = new_meta(FuncById(last'.func).ttl, now)
\* the memory tier holds the result of the call just completed
MemoryHoldsResult ==
  /\ HasKey(cache', last'.key)
  /\ Lookup(cache', last'.key).value = last'.ret

C22_FiguresHarvested ==
  [][runs' = runs + 1
       => /\ figures' = <<>>
          /\ Len(plot_last'.plots) = plot_last'.created
          /\ \A i \in 1..Len(plot_last'.plots) : plot_last'.plots[i] = runs']_vars

\* C23: every InMemoryCache.set ends with the key in the store; when the
\* new entry alone is larger than max_size, the eviction has removed every
\* other entry and the write is admitted.
C23_OversizedAdmitted ==
  [][Did("mem_set") =>
       /\ HasKey(cache', last'.key)
       /\ Lookup(cache', last'.key).size > max_size
            => /\ Len(cache') = 1
               /\ KeysOf(cache) \ {last'.key} \subseteq KeysOf(last'.evicted)]_vars
\* an entry larger than max_size was admitted after the eviction of two others
C23_Witness ==
  /\ last.op = "mem_set"
  /\ Len(cache) = 1 /\ cache[1].key = last.key /\ cache[1].size > max_size
  /\ Len(last.evicted) >= 2

\* C24: among entries with equal access_time an eviction removes them in
\* ascending access_count order: an entry it spares has no smaller
\* access_count than one it removes, and the victims are removed in
\* ascending access_count order.
C24_TieBreak ==
  [][(Did("mem_set") \/ Did("cleanup")) =>
       /\ \A i \in 1..Len(cache), j \in 1..Len(last'.evicted) :
            (/\ cache[i].key \notin KeysOf(last'.evicted)
             /\ cache[i].access_time = last'.evicted[j].access_time)
              => cache[i].access_count >= last'.evicted[j].access_count
       /\ \A i, j \in 1..Len(last'.evicted) :
            (i < j /\ last'.evicted[i].access_time = last'.evicted[j].access_time)
              => last'.evicted[i].access_count <= last'.evicted[j].access_count]_vars

\* thread t is between the first and the last write of a modification of the
\* store or of current_size
Mutating(t) ==
  mem_ops[t].pc \in {"evict_del", "evict_load", "evict_store", "set_put",
                     "get_del", "get_size", "clear_store", "clear_size"}

\* C25: the mutations of the memory tier are mutually exclusive: at no time
\* are a get, set or clear of a caller and the eviction of the cleanup task
\* both modifying the store or current_size.
C25_SingleWriter == \A t, u \in MemThreads : Mutating(t) /\ Mutating(u) => t = u

\* thread t runs the handler of cleanup_expired for an unreadable record
HandlerStep(t) == At(t, "cleanup_unlink") /\ disk_ops'[t].pc = "cleanup_next"

\* C26: cleanup_expired removes an entry whose metadata was unreadable:
\* when the sweep has handled such a record and goes on to the next one,
\* neither the payload nor the metadata of the entry remains on disk.
C26_UnreadableRemoved ==
  [][\A t \in DiskThreads :
       HandlerStep(t) => /\ ~file_exists(payload', disk_ops[t].key)
                         /\ ~meta_exists(meta', disk_ops[t].key)]_vars

\* the step just taken is a memoized call that put a disk hit into memory
Promotion == Did("memo") /\ last'.promoted

\* C27: a promotion at time t gives the memory entry a fresh full window
\* (created at t with the function's ttl, access_count 1) whatever lifetime
\* the disk entry has left; of the disk entry the hit changes only the access
\* time and the access count, not the expiry time.
C27_PromotionFreshWindow ==
  [][Promotion =>
       /\ HasKey(cache', last'.key)
       /\ Lookup(cache', last'.key) =
            CacheEntry(last'.key, last'.ret, FuncById(last'.func).ttl, now)
       /\ Lookup(cache', last'.key).access_count = 1
       /\ ~is_expired(Lookup(cache', last'.key), now + FuncById(last'.func).ttl)
       /\ is_expired(Lookup(cache', last'.key), now + FuncById(last'.func).ttl + 1)
       /\ payload' = payload
       /\ meta' = [meta EXCEPT ![last'.key].access_time = now,
                               ![last'.key].access_count = @ + 1]
       /\ meta'[last'.key].expires_at = meta[last'.key].expires_at]_vars
\* a disk entry written earlier was promoted: the memory entry is younger
\* than the disk entry and outlives it
C27_Witness ==
  /\ last.op = "memo" /\ last.promoted
  /\ HasKey(cache, last.key)
  /\ meta[last.key].created_time < Lookup(cache, last.key).created_time
  /\ meta[last.key].expires_at
       < Lookup(cache, last.key).created_time + Lookup(cache, last.key).ttl

\* both threads have completed a memoized call on key k that ran the
\* computation, and neither has gone on to anything else
BothComputed(k) ==
  \A t \in CallThreads :
    /\ CallAt(t, "return") /\ call_ops[t].op = "memo"
    /\ call_ops[t].computed /\ call_ops[t].key = k
EntriesOf(c, k) == { i \in 1..Len(c) : c[i].key = k }

\* C28: after two concurrent memoized calls that both missed on the same key
\* have returned, the memory tier holds exactly one entry for the key, its
\* value is the one written last, and current_size is the sum of the sizes
\* of the stored entries.
C28_LastWriteWins ==
  \A k \in Keys :
    BothComputed(k) =>
      /\ Cardinality(EntriesOf(cache, k)) = 1
      /\ last.op = "mem_set" /\ last.key = k
      /\ Lookup(cache, k).value = last.ret
      /\ current_size = SumSizes(cache)
\* both calls ran the computation with different results, and the entry
\* holds the one written last
C28_Witness ==
  \E k \in Keys :
    /\ BothComputed(k)
    /\ call_ops["c1"].ret # call_ops["c2"].ret
    /\ HasKey(cache, k)
    /\ Lookup(cache, k).value = last.ret

\* C30: when clear_all returns, neither tier holds an entry stored before
\* it began: a key that has an entry in either tier had a computed result
\* stored while clear_all ran.
C30_ClearAllComplete ==
  \A t \in CallThreads :
    (CallAt(t, "return") /\ call_ops[t].op = "clear_all") =>
      \A k \in Keys \ call_ops[t].fresh :
        /\ ~HasKey(cache, k)
        /\ payload[k] = NoFile
        /\ meta[k] = NoMeta

\* thread t is inside DiskCache.set, holding the lock, with the payload
\* written and the metadata still to write
SetWriting(t) ==
  /\ disk_ops[t].op = "disk_set" /\ At(t, "set_meta") /\ disk_lock = t
\* thread u takes a step of a DiskCache.get on key k
GetStep(u, k) ==
  /\ disk_ops[u].op = "disk_get" /\ disk_ops[u].key = k
  /\ disk_ops'[u] # disk_ops[u]

\* C29: a DiskCache.get running concurrently with a DiskCache.set on the
\* same key never destroys the entry being written: while the set is between
\* its two writes, no step of the get removes or changes the files of the key.
C29_GetSparesWrite ==
  [][\A t, u \in DiskThreads :
       (SetWriting(t) /\ GetStep(u, disk_ops[t].key))
         => /\ payload'[disk_ops[t].key] = payload[disk_ops[t].key]
            /\ meta'[disk_ops[t].key] = meta[disk_ops[t].key]]_vars

====
